---- MODULE Spec2Model ----
(***************************************************************************)
(* A model of localstripe-v3.js, the browser-side stand-in for Stripe.js:  *)
(* the asynchronous entry points of the object returned by Stripe(apiKey)  *)
(* (createToken, createSource, confirmCardSetup, handleCardSetup,          *)
(* confirmCardPayment, handleCardPayment, confirmSepaDebitSetup), the      *)
(* network calls they issue through fetch, and the 3D Secure modal         *)
(* (openModal) they await.                                                 *)
(*                                                                         *)
(* JavaScript values are records tagged by the field t: "undefined",       *)
(* "null", "string" (field s), "TypeError", "Element", "object".  An       *)
(* "object" record carries the object's own keys as further fields, so     *)
(* that {error: null, setupIntent: body} is the record                     *)
(* [t |-> "object", error |-> Null, setupIntent |-> body].                 *)
(*                                                                         *)
(* The model follows one invocation, from the call of an entry point to    *)
(* the settling of the promise it returned; invocations share no state of  *)
(* the script.  Each action is the piece of an async function that runs    *)
(* between two suspension points: from the call                            *)
(* to the first await, from the settling of a fetch (the response and the  *)
(* decoding of its body by response.json()) to the next await or return,   *)
(* from the click in the modal to the next await.                          *)
(*                                                                         *)
(* The card widget (class Element) and the factory returned by elements()  *)
(* are modelled next to it: the slot of the factory, the widgets created   *)
(* so far and the last call made on them, with one action per method       *)
(* (create, getElement, mount, unmount, destroy, on) and per input event.  *)
(* Spec follows an invocation, SpecParse the parsing of longer client      *)
(* secrets, SpecWidget the calls made on the factory and its widgets.      *)
(***************************************************************************)
EXTENDS Integers, Sequences, FiniteSets, TLC

VARIABLES
    entry,      \* the public function that was called, "none" before any call
    pc,         \* where the invocation is suspended
    secret,     \* the clientSecret argument of the invocation
    seti,       \* the intent id captured from the secret (const seti / const pi)
    calls,      \* the fetch calls issued by the invocation, in order
    responses,  \* how each of these fetch calls settled, in order
    modals,     \* number of openModal calls made by the invocation
    clicks,     \* the values the modal promises resolved with, in order
    result,     \* what the promise returned by the entry point settled with
    trace,      \* the order of the invocation's fetches, settlements, modals, clicks
    slot,       \* _cardElement of the factory: 0 for null, or the widget held
    widgets,    \* the Element objects constructed so far, in order of creation
    lastOp,     \* the last call made on the factory or on a widget, and its outcome
    args,       \* the arguments the entry point was called with
    pressed,    \* the buttons of the modal the user clicked, in order
    page        \* the data object the page keeps and passes to confirmCardSetup

\* the state of an invocation of an entry point
evars == <<entry, pc, secret, seti, calls, responses, modals, clicks, result, trace,
           args, pressed, page>>

\* the state of the factory and of its widgets
wvars == <<slot, widgets, lastOp>>

vars == <<entry, pc, secret, seti, calls, responses, modals, clicks, result, trace,
          slot, widgets, lastOp, args, pressed, page>>

(***************************************************************************)
(* Bounds of the model.                                                    *)
(***************************************************************************)
\* longest client secret, in tokens
MaxSecretLen == 3
\* number of distinguishable response bodies with the same fields
MaxTag == 2
\* longest client secret of the parsing specification, in tokens
MaxParseLen == 4
\* number of widgets the page creates
MaxWidgets == 2
\* number of handlers the page registers per event of a widget
MaxListeners == 2
\* how many times a pattern of keystrokes is repeated in a pasted text
MaxRepeat == 9
\* how many times the page calls confirmCardSetup with the object it keeps
MaxInvocations == 2

(***************************************************************************)
(* JavaScript values.                                                      *)
(***************************************************************************)
Undefined == [t |-> "undefined"]
Null == [t |-> "null"]
Str(s) == [t |-> "string", s |-> s]
TypeError(m) == [t |-> "TypeError", message |-> m]
EmptyObject == [t |-> "object"]

\* a JavaScript string held as its characters
Text(cs) == [t |-> "string", chars |-> cs]

\* v.f : the property f of the value v, undefined when v has no such key
Get(v, f) == IF f \in DOMAIN v THEN v[f] ELSE Undefined

\* v.f throws a TypeError when v is undefined or null
Nullish(v) == v.t \in {"undefined", "null"}

\* the truthiness the conditions `x || y` and `if (x)` test
Truthy(v) == ~Nullish(v) /\ v # Str("") /\ v # Text(<<>>)

\* typeof v === 'object'
TypeOfObject(v) == v.t \in {"object", "null", "TypeError", "Element"}

\* `${v}` inside a template literal
TemplateText(v) ==
    CASE v.t = "string" -> v.s
      [] v.t = "undefined" -> "undefined"
      [] v.t = "null" -> "null"
      [] OTHER -> "[object Object]"

\* {...a, ...b}: the keys of both, b's value where both have the key
Spread(a, b) == IF Nullish(b) THEN a ELSE b @@ a

(***************************************************************************)
(* Arguments the page passes to the entry points.                          *)
(***************************************************************************)
ApiKey == Str("pk_test_12345")

\* A client secret is a sequence of tokens.  "w" stands for a run of word
\* characters (\w) that holds none of the other tokens, "-" for a character
\* that is not a word character; the other three tokens are made of word
\* characters only.
SecretTokens == {"seti_", "pi_", "w", "_secret_", "-"}
WordTokens == {"seti_", "pi_", "w", "_secret_"}

Secrets == UNION {[1..n -> SecretTokens] : n \in 1..MaxSecretLen}

\* a slip: the pattern does not test the prefix of the resource kind
Match_AnyPrefix(prefix, s) ==
    LET ends == {k \in 3..Len(s) :
                    /\ s[1] \in {"seti_", "pi_"}
                    /\ s[k] = "_secret_"
                    /\ \A j \in 2..(k - 1) : s[j] \in WordTokens}
    IN  IF ends = {} THEN Null
        ELSE LET k == CHOOSE m \in ends : \A n \in ends : n <= m
             IN  [t |-> "match", group1 |-> SubSeq(s, 1, k - 1)]

\* clientSecret.match(/^(<prefix>\w+)_secret_/): null, or the match whose
\* group 1 is the id.  \w+ is greedy, so the group runs up to the last
\* "_secret_" that only word characters (at least one) separate from the
\* prefix.
Match(prefix, s) ==
    LET ends == {k \in 3..Len(s) :
                    /\ s[1] = prefix
                    /\ s[k] = "_secret_"
                    /\ \A j \in 2..(k - 1) : s[j] \in WordTokens}
    IN  IF ends = {} THEN Null
        ELSE LET k == CHOOSE m \in ends : \A n \in ends : n <= m
             IN  [t |-> "match", group1 |-> SubSeq(s, 1, k - 1)]

\* element.value as the change handler of a mounted widget sets it
CardValue ==
    [t |-> "object", number |-> Str("4242424242424242"), exp_month |-> Str("12"),
     exp_year |-> Str("2030"), cvc |-> Str("123")]

WidgetValues ==
    {[t |-> "object", card |-> CardValue, postal_code |-> Str(p)] : p \in {"", "75001"}}

\* a widget; value is undefined until the first input event
Elements == {[t |-> "Element", value |-> v] : v \in {Undefined} \cup WidgetValues}

BillingDetails ==
    [t |-> "object",
     address |-> [t |-> "object", postal_code |-> Str("10001")]]

\* the billing details a caller may pass: with a postal code, with an
\* empty one, and without address
BillingDetailsGiven ==
    {BillingDetails,
     [t |-> "object", address |-> [t |-> "object", postal_code |-> Str("")]],
     [t |-> "object", name |-> Str("Jane Doe")]}

\* payment_method.card given as plain card data instead of a widget
PlainCard == [t |-> "object", token |-> Str("tok_visa")]

PaymentMethods ==
    {[t |-> "object", card |-> c] : c \in Elements \cup {PlainCard}}
    \cup {[t |-> "object", card |-> c, billing_details |-> b] :
             c \in Elements \cup {PlainCard}, b \in BillingDetailsGiven}

\* the data argument of confirmCardSetup
CardSetupData ==
    {Undefined, EmptyObject}
    \cup {[t |-> "object", payment_method |-> pm] : pm \in PaymentMethods}

\* the data argument of handleCardSetup
HandleCardSetupData ==
    {Undefined, EmptyObject,
     [t |-> "object",
      payment_method_data |-> [t |-> "object", billing_details |-> BillingDetails]]}

\* the data argument of confirmSepaDebitSetup
SepaData ==
    {Undefined,
     [t |-> "object",
      payment_method |->
          [t |-> "object",
           sepa_debit |-> [t |-> "object", iban |-> Str("DE89370400440532013000")]]]}

\* the source argument of createSource
Sources == {Undefined, [t |-> "object", type |-> Str("card"), token |-> Str("tok_visa")]}

(***************************************************************************)
(* What the backend and the network can answer to a fetch.                 *)
(***************************************************************************)
\* the status of an intent in a decoded body; "foo" is a value the script
\* does not know
Statuses ==
    {"requires_payment_method", "requires_confirmation", "requires_action",
     "succeeded", "canceled", "foo"}

\* the error object of the API's error shape {error: {message, type}}
ApiError ==
    [t |-> "object", message |-> "Your card was declined.", type |-> Str("card_error")]

\* decoded JSON bodies: objects, with or without a status, with or without
\* an error; tag tells apart two bodies with the same fields
Bodies ==
    {[t |-> "object", tag |-> n] : n \in 1..MaxTag}
    \cup {[t |-> "object", tag |-> n, status |-> Str(st)] :
             n \in 1..MaxTag, st \in Statuses}
    \cup {[t |-> "object", tag |-> n, error |-> ApiError] : n \in 1..MaxTag}
    \cup {[t |-> "object", tag |-> n, error |-> ApiError, status |-> Str(st)] :
             n \in 1..MaxTag, st \in {"requires_payment_method", "succeeded"}}

HttpStatuses == {200, 402, 500}

\* what a rejected fetch throws: the TypeError of a network failure, or an
\* object that carries an error key (the case the catch blocks test for)
ThrownValues ==
    {TypeError("Failed to fetch"),
     [t |-> "object", error |-> [t |-> "object", message |-> "connection lost"]]}

\* how a fetch settles: rejected, or fulfilled with a response whose body
\* is JSON (decodable) or not
Settlements ==
    {[kind |-> "rejected", err |-> e] : e \in ThrownValues}
    \cup {[kind |-> "response", status |-> c, decodable |-> FALSE] : c \in HttpStatuses}
    \cup {[kind |-> "response", status |-> c, decodable |-> TRUE, json |-> b] :
             c \in HttpStatuses, b \in Bodies}

(***************************************************************************)
(* The pieces the entry points share.                                      *)
(***************************************************************************)
Pending == [t |-> "pending"]

\* an exception that leaves an async function rejects the promise it returned
Rejected(err) == [t |-> "rejected", reason |-> err]

\* `${LOCALSTRIPE_BASE_API}/v1/<resource>[/<id>/<action>][?<query>]`
Url(resource, id, action, query) ==
    [resource |-> resource, id |-> id, action |-> action, query |-> query]

\* fetch(url, {method: 'POST', body})
Request(url, body) == [url |-> url, method |-> "POST", body |-> body]

\* catch (err) { if (typeof err === 'object' && err.error) return err;
\*               else return {error: err}; }
CatchResult(err) ==
    IF TypeOfObject(err) /\ Truthy(Get(err, "error"))
    THEN err
    ELSE [t |-> "object", error |-> err]

\* await response.json().catch(() => ({}))
BodyOf(resp) == IF resp.decodable THEN resp.json ELSE EmptyObject

\* response.status !== 200 || body.error
Failed(resp) == resp.status # 200 \/ Truthy(Get(BodyOf(resp), "error"))

\* return {error: body.error}
ErrorResult(resp) == [t |-> "object", error |-> Get(BodyOf(resp), "error")]

\* the tail of the one-shot entry points: {error: res.error} on a failed
\* response, {<field>: res} otherwise
OneShotResult(field, resp) ==
    IF resp.kind = "rejected" THEN CatchResult(resp.err)
    ELSE IF Failed(resp) THEN ErrorResult(resp)
    ELSE [x \in {"t", field} |-> IF x = "t" THEN "object" ELSE BodyOf(resp)]

\* the TypeError of clientSecret.match(...)[1] when match() returns null
NullMatchError == TypeError("Cannot read properties of null (reading '1')")

\* the TypeError of reading a property of undefined
UndefinedReadError == TypeError("Cannot read properties of undefined")

AuthenticationFailedMessage ==
    "The latest attempt to set up the payment method has failed because authentication failed."

CardSetupEntries == {"confirmCardSetup", "handleCardSetup"}
CardPaymentEntries == {"confirmCardPayment", "handleCardPayment"}

\* an entry point is called: the state of the new invocation
Enter(name, s, id, cs, m, r, p, tr) ==
    /\ pc = "idle"
    /\ entry' = name
    /\ secret' = s
    /\ seti' = id
    /\ calls' = cs
    /\ responses' = <<>>
    /\ modals' = m
    /\ clicks' = <<>>
    /\ result' = r
    /\ pc' = p
    /\ trace' = tr
    /\ pressed' = <<>>
    /\ UNCHANGED <<slot, widgets, lastOp>>

\* the awaited fetch settles and the function returns r
SettleAndReturn(resp, r) ==
    /\ responses' = Append(responses, resp)
    /\ result' = r
    /\ pc' = "done"
    /\ trace' = trace \o <<"settled", "return">>
    /\ UNCHANGED <<entry, secret, seti, calls, modals, clicks, slot, widgets, lastOp,
                   args, pressed, page>>

\* the arguments of a call, by parameter name
NoArguments == [t |-> "arguments"]

\* the object the page keeps to pass as `data`: it refers to the first
\* widget; invocations counts the calls made with it
NoPage ==
    [data |-> [t |-> "object",
               payment_method |-> [t |-> "object",
                                   card |-> [t |-> "Element", w |-> 1]]],
     invocations |-> 0]

\* no call made yet on the factory
NoOp == [op |-> "none", w |-> 0, arg |-> Undefined, error |-> "none",
         returned |-> 0, notified |-> <<>>, tick |-> 0]

Init ==
    /\ entry = "none"
    /\ pc = "idle"
    /\ secret = <<>>
    /\ seti = <<>>
    /\ calls = <<>>
    /\ responses = <<>>
    /\ modals = 0
    /\ clicks = <<>>
    /\ result = Pending
    /\ trace = <<>>
    /\ slot = 0
    /\ widgets = <<>>
    /\ lastOp = NoOp
    /\ args = NoArguments
    /\ page = NoPage
    /\ pressed = <<>>

(***************************************************************************)
(* createToken and createSource.                                           *)
(***************************************************************************)
\* createToken(element), up to `await fetch`.  element.value.card is read
\* before the try block.
CreateToken(element) ==
    /\ args' = [t |-> "arguments", element |-> element]
    /\ UNCHANGED page
    /\ IF Nullish(Get(element, "value"))
       THEN Enter("createToken", <<>>, <<>>, <<>>, 0,
                  Rejected(UndefinedReadError), "done", <<"throw">>)
       ELSE Enter("createToken", <<>>, <<>>,
                  <<Request(Url("tokens", <<>>, "", ""),
                            [t |-> "form", card |-> element.value.card, key |-> ApiKey,
                             payment_user_agent |-> Str("localstripe")])>>,
                  0, Pending, "fetch1", <<"fetch">>)

\* a slip: a transport failure is retried once
CreateTokenSettled_Retry(resp) ==
    /\ entry = "createToken"
    /\ pc = "fetch1"
    /\ IF resp.kind = "rejected" /\ Len(calls) = 1
       THEN /\ responses' = Append(responses, resp)
            /\ calls' = Append(calls, calls[1])
            /\ trace' = trace \o <<"settled", "fetch">>
            /\ UNCHANGED <<entry, pc, secret, seti, modals, clicks, result,
                           slot, widgets, lastOp, args, pressed, page>>
       ELSE SettleAndReturn(resp, OneShotResult("token", resp))

CreateTokenSettled(resp) ==
    /\ entry = "createToken"
    /\ pc = "fetch1"
    /\ SettleAndReturn(resp, OneShotResult("token", resp))

\* createSource(source), up to `await fetch`
CreateSource(source) ==
    /\ args' = [t |-> "arguments", source |-> source]
    /\ UNCHANGED page
    /\ Enter("createSource", <<>>, <<>>,
             <<Request(Url("sources", <<>>, "", ""),
                       Spread([t |-> "object", key |-> ApiKey,
                               payment_user_agent |-> Str("localstripe")], source))>>,
             0, Pending, "fetch1", <<"fetch">>)

CreateSourceSettled(resp) ==
    /\ entry = "createSource"
    /\ pc = "fetch1"
    /\ SettleAndReturn(resp, OneShotResult("source", resp))

(***************************************************************************)
(* confirmCardSetup and handleCardSetup.                                   *)
(***************************************************************************)
\* the statements before the first fetch that throw (inside the try):
\* data.payment_method.card on a missing data or payment_method, and
\* element.value.card on a widget whose value was never set
CardSetupDataThrows(data) ==
    \/ Nullish(data)
    \/ Nullish(Get(data, "payment_method"))
    \/ /\ Get(data.payment_method, "card").t = "Element"
       /\ Nullish(Get(data.payment_method.card, "value"))

\* a slip: the widget's postal code always wins
SplicedPaymentMethod_WidgetWins(pm) ==
    IF Get(pm, "card").t = "Element"
    THEN LET element == pm.card
             details == IF Truthy(Get(pm, "billing_details"))
                        THEN pm.billing_details ELSE EmptyObject
             address == IF Truthy(Get(details, "address"))
                        THEN details.address ELSE EmptyObject
         IN  [card |-> Get(element.value, "card"),
              billing_details |->
                  ([address |-> ([postal_code |-> Get(element.value, "postal_code")]
                                 @@ address)] @@ details)]
             @@ pm
    ELSE pm

\* data.payment_method after the widget has been replaced by its value:
\* card is element.value.card and billing_details.address.postal_code is
\* the caller's, or else the widget's
SplicedPaymentMethod(pm) ==
    IF Get(pm, "card").t = "Element"
    THEN LET element == pm.card
             details == IF Truthy(Get(pm, "billing_details"))
                        THEN pm.billing_details ELSE EmptyObject
             address == IF Truthy(Get(details, "address"))
                        THEN details.address ELSE EmptyObject
             postal  == IF Truthy(Get(address, "postal_code"))
                        THEN address.postal_code
                        ELSE Get(element.value, "postal_code")
         IN  [card |-> Get(element.value, "card"),
              billing_details |->
                  ([address |-> ([postal_code |-> postal] @@ address)] @@ details)]
             @@ pm
    ELSE pm

SetupConfirmUrl(id) == Url("setup_intents", id, "confirm", "")

\* the body of the first confirm call
FirstConfirmBody(s, type, pm) ==
    [t |-> "object", key |-> ApiKey, use_stripe_sdk |-> TRUE, client_secret |-> s,
     payment_method_data |-> Spread([t |-> "object", type |-> Str(type)], pm)]

\* a slip: the click is ignored and the call always goes to confirm
SecondRoundUrl_AlwaysConfirm(id, accepted) ==
    Url("setup_intents", id, "confirm", "")

\* the url the click in the modal selects
SecondRoundUrl(id, accepted) ==
    Url("setup_intents", id, IF accepted THEN "confirm" ELSE "cancel", "")

\* a slip: the second round sends the payment method again
SecondRoundBody_WithPayload(s) ==
    [t |-> "object", key |-> ApiKey, use_stripe_sdk |-> TRUE, client_secret |-> s,
     payment_method_data |-> [t |-> "object", type |-> Str("card")]]

\* the body of the call that follows the modal
SecondRoundBody(s) ==
    [t |-> "object", key |-> ApiKey, use_stripe_sdk |-> TRUE, client_secret |-> s]

\* a slip: "requires_confirmation" opens the modal too
NeedsChallenge_AlsoConfirmation(resp) ==
    /\ resp.kind = "response"
    /\ ~Failed(resp)
    /\ Get(BodyOf(resp), "status")
           \in {Str("requires_action"), Str("requires_confirmation")}

\* the first round goes on to the modal
NeedsChallenge(resp) ==
    /\ resp.kind = "response"
    /\ ~Failed(resp)
    /\ Get(BodyOf(resp), "status") = Str("requires_action")

\* a slip: the success result has no `error: null`
CardSetupFirstResult_NoErrorKey(resp) ==
    IF resp.kind = "rejected" THEN CatchResult(resp.err)
    ELSE IF Failed(resp) THEN ErrorResult(resp)
    ELSE IF Get(BodyOf(resp), "status") = Str("succeeded")
    THEN [t |-> "object", setupIntent |-> BodyOf(resp)]
    ELSE [t |-> "object",
          error |-> [t |-> "object",
                     message |-> "setup_intent has status "
                                 \o TemplateText(Get(BodyOf(resp), "status"))]]

\* a slip: an unknown status gets the message of the second round
CardSetupFirstResult_FixedMessage(resp) ==
    IF resp.kind = "rejected" THEN CatchResult(resp.err)
    ELSE IF Failed(resp) THEN ErrorResult(resp)
    ELSE IF Get(BodyOf(resp), "status") = Str("succeeded")
    THEN [t |-> "object", error |-> Null, setupIntent |-> BodyOf(resp)]
    ELSE [t |-> "object",
          error |-> [t |-> "object", message |-> AuthenticationFailedMessage]]

\* what the first round returns when it does not go on to the modal
CardSetupFirstResult(resp) ==
    IF resp.kind = "rejected" THEN CatchResult(resp.err)
    ELSE IF Failed(resp) THEN ErrorResult(resp)
    ELSE IF Get(BodyOf(resp), "status") = Str("succeeded")
    THEN [t |-> "object", error |-> Null, setupIntent |-> BodyOf(resp)]
    ELSE [t |-> "object",
          error |-> [t |-> "object",
                     message |-> "setup_intent has status "
                                 \o TemplateText(Get(BodyOf(resp), "status"))]]

\* a slip: the second round reports the status as the first round does
CardSetupSecondResult_StatusMessage(resp) ==
    IF resp.kind = "rejected" THEN CatchResult(resp.err)
    ELSE IF Failed(resp) THEN ErrorResult(resp)
    ELSE IF Get(BodyOf(resp), "status") = Str("succeeded")
    THEN [t |-> "object", error |-> Null, setupIntent |-> BodyOf(resp)]
    ELSE [t |-> "object",
          error |-> [t |-> "object",
                     message |-> "setup_intent has status "
                                 \o TemplateText(Get(BodyOf(resp), "status"))]]

\* a slip: the failed second round still hands out the intent
CardSetupSecondResult_KeepsIntent(resp) ==
    IF resp.kind = "rejected" THEN CatchResult(resp.err)
    ELSE IF Failed(resp) THEN ErrorResult(resp)
    ELSE IF Get(BodyOf(resp), "status") = Str("succeeded")
    THEN [t |-> "object", error |-> Null, setupIntent |-> BodyOf(resp)]
    ELSE [t |-> "object",
          error |-> [t |-> "object", message |-> AuthenticationFailedMessage],
          setupIntent |-> BodyOf(resp)]

\* what the second round returns
CardSetupSecondResult(resp) ==
    IF resp.kind = "rejected" THEN CatchResult(resp.err)
    ELSE IF Failed(resp) THEN ErrorResult(resp)
    ELSE IF Get(BodyOf(resp), "status") = Str("succeeded")
    THEN [t |-> "object", error |-> Null, setupIntent |-> BodyOf(resp)]
    ELSE [t |-> "object",
          error |-> [t |-> "object", message |-> AuthenticationFailedMessage]]

\* confirmCardSetup(clientSecret, data), up to `await fetch`, called under
\* the public name `name`
ConfirmCardSetupCall(name, s, data) ==
    LET m == Match("seti_", s) IN
    IF m = Null
    THEN Enter(name, s, <<>>, <<>>, 0, CatchResult(NullMatchError), "done",
               <<"return">>)
    ELSE IF CardSetupDataThrows(data)
    THEN Enter(name, s, m.group1, <<>>, 0, CatchResult(UndefinedReadError), "done",
               <<"return">>)
    ELSE Enter(name, s, m.group1,
               <<Request(SetupConfirmUrl(m.group1),
                         FirstConfirmBody(s, "card",
                                          SplicedPaymentMethod(data.payment_method)))>>,
               0, Pending, "fetch1", <<"fetch">>)

ConfirmCardSetup(s, data) ==
    /\ args' = [t |-> "arguments", clientSecret |-> s, data |-> data]
    /\ UNCHANGED page
    /\ ConfirmCardSetupCall("confirmCardSetup", s, data)

\* handleCardSetup(clientSecret, element, data): data.payment_method_data
\* is read outside any try block
HandleCardSetup(s, element, data) ==
    /\ args' = [t |-> "arguments", clientSecret |-> s, element |-> element,
                data |-> data]
    /\ UNCHANGED page
    /\ IF Nullish(data)
       THEN Enter("handleCardSetup", s, <<>>, <<>>, 0,
                  Rejected(UndefinedReadError), "done", <<"throw">>)
       ELSE ConfirmCardSetupCall(
                "handleCardSetup", s,
                [t |-> "object",
                 payment_method |-> Spread([t |-> "object", card |-> element],
                                           Get(data, "payment_method_data"))])

\* the first confirm call settles: return, or open the modal
ConfirmCardSetupFirstSettled(resp) ==
    /\ entry \in CardSetupEntries
    /\ pc = "fetch1"
    /\ IF NeedsChallenge(resp)
       THEN /\ responses' = Append(responses, resp)
            /\ modals' = modals + 1
            /\ pc' = "modal"
            /\ trace' = trace \o <<"settled", "openModal">>
            /\ UNCHANGED <<entry, secret, seti, calls, clicks, result,
                           slot, widgets, lastOp, args, pressed, page>>
       ELSE SettleAndReturn(resp, CardSetupFirstResult(resp))

\* a slip: the second request sends the payload again, read from the
\* widget as it is when the button is clicked
ConfirmCardSetupClick_RereadsWidget(accepted) ==
    /\ entry \in CardSetupEntries
    /\ pc = "modal"
    /\ clicks' = Append(clicks, accepted)
    /\ calls' = Append(calls,
                       Request(SecondRoundUrl(seti, accepted),
                               FirstConfirmBody(secret, "card",
                                   [t |-> "object",
                                    card |-> IF widgets = <<>> THEN Undefined
                                             ELSE Get(widgets[1].value, "card")])))
    /\ pc' = "fetch2"
    /\ trace' = trace \o <<"click", "fetch">>
    /\ UNCHANGED <<entry, secret, seti, responses, modals, result,
                   slot, widgets, lastOp, args, page>>

\* a button of the modal is clicked: the second confirm, or the cancel
ConfirmCardSetupClick(accepted) ==
    /\ entry \in CardSetupEntries
    /\ pc = "modal"
    /\ clicks' = Append(clicks, accepted)
    /\ calls' = Append(calls, Request(SecondRoundUrl(seti, accepted),
                                      SecondRoundBody(secret)))
    /\ pc' = "fetch2"
    /\ trace' = trace \o <<"click", "fetch">>
    /\ UNCHANGED <<entry, secret, seti, responses, modals, result,
                   slot, widgets, lastOp, args, page>>

\* a slip: a second "requires_action" opens the modal again
ConfirmCardSetupSecondSettled_Retry(resp) ==
    /\ entry \in CardSetupEntries
    /\ pc = "fetch2"
    /\ IF NeedsChallenge(resp)
       THEN /\ responses' = Append(responses, resp)
            /\ modals' = modals + 1
            /\ pc' = "modal"
            /\ trace' = trace \o <<"settled", "openModal">>
            /\ UNCHANGED <<entry, secret, seti, calls, clicks, result,
                           slot, widgets, lastOp, args, pressed, page>>
       ELSE SettleAndReturn(resp, CardSetupSecondResult(resp))

\* the second call settles
ConfirmCardSetupSecondSettled(resp) ==
    /\ entry \in CardSetupEntries
    /\ pc = "fetch2"
    /\ SettleAndReturn(resp, CardSetupSecondResult(resp))

(***************************************************************************)
(* confirmCardPayment and handleCardPayment.                               *)
(***************************************************************************)
\* confirmCardPayment(clientSecret), up to `await openModal`
ConfirmCardPaymentCall(name, s) ==
    Enter(name, s, <<>>, <<>>, 1, Pending, "modal", <<"openModal">>)

ConfirmCardPayment(s) ==
    /\ args' = [t |-> "arguments", clientSecret |-> s]
    /\ UNCHANGED page
    /\ ConfirmCardPaymentCall("confirmCardPayment", s)

\* handleCardPayment(clientSecret, element, data)
HandleCardPayment(s) ==
    /\ args' = [t |-> "arguments", clientSecret |-> s]
    /\ UNCHANGED page
    /\ ConfirmCardPaymentCall("handleCardPayment", s)

\* a slip: the outcome of the modal is not passed on
AuthenticateUrl_AlwaysTrue(id, success) ==
    Url("payment_intents", id, "_authenticate", "success=true")

\* `/v1/payment_intents/${pi}/_authenticate?success=${success}`
AuthenticateUrl(id, success) ==
    Url("payment_intents", id, "_authenticate",
        IF success THEN "success=true" ELSE "success=false")

AuthenticateBody(s) == [t |-> "object", key |-> ApiKey, client_secret |-> s]

\* a button of the modal is clicked: the secret is parsed, then the
\* authenticate call is issued
ConfirmCardPaymentClick(success) ==
    /\ entry \in CardPaymentEntries
    /\ pc = "modal"
    /\ clicks' = Append(clicks, success)
    /\ LET m == Match("pi_", secret) IN
       IF m = Null
       THEN /\ result' = CatchResult(NullMatchError)
            /\ pc' = "done"
            /\ trace' = trace \o <<"click", "return">>
            /\ UNCHANGED <<seti, calls>>
       ELSE /\ seti' = m.group1
            /\ calls' = Append(calls, Request(AuthenticateUrl(m.group1, success),
                                              AuthenticateBody(secret)))
            /\ pc' = "fetch1"
            /\ trace' = trace \o <<"click", "fetch">>
            /\ UNCHANGED result
    /\ UNCHANGED <<entry, secret, responses, modals, slot, widgets, lastOp, args, page>>

ConfirmCardPaymentSettled(resp) ==
    /\ entry \in CardPaymentEntries
    /\ pc = "fetch1"
    /\ SettleAndReturn(resp, OneShotResult("paymentIntent", resp))

(***************************************************************************)
(* confirmSepaDebitSetup.                                                  *)
(***************************************************************************)
\* confirmSepaDebitSetup(clientSecret, data), up to `await fetch`
ConfirmSepaDebitSetup(s, data) ==
    /\ args' = [t |-> "arguments", clientSecret |-> s, data |-> data]
    /\ UNCHANGED page
    /\ LET m == Match("seti_", s) IN
       IF m = Null
       THEN Enter("confirmSepaDebitSetup", s, <<>>, <<>>, 0,
                  CatchResult(NullMatchError), "done", <<"return">>)
       ELSE IF Nullish(data)
       THEN Enter("confirmSepaDebitSetup", s, m.group1, <<>>, 0,
                  CatchResult(UndefinedReadError), "done", <<"return">>)
       ELSE Enter("confirmSepaDebitSetup", s, m.group1,
                  <<Request(SetupConfirmUrl(m.group1),
                            FirstConfirmBody(s, "sepa_debit",
                                             Get(data, "payment_method")))>>,
                  0, Pending, "fetch1", <<"fetch">>)

\* a slip: the SEPA variant copies the challenge branch of the card variant
ConfirmSepaDebitSetupSettled_Challenge(resp) ==
    /\ entry = "confirmSepaDebitSetup"
    /\ pc = "fetch1"
    /\ IF NeedsChallenge(resp)
       THEN /\ responses' = Append(responses, resp)
            /\ modals' = modals + 1
            /\ pc' = "modal"
            /\ trace' = trace \o <<"settled", "openModal">>
            /\ UNCHANGED <<entry, secret, seti, calls, clicks, result,
                           slot, widgets, lastOp, args, pressed, page>>
       ELSE SettleAndReturn(resp, OneShotResult("setupIntent", resp))

ConfirmSepaDebitSetupSettled(resp) ==
    /\ entry = "confirmSepaDebitSetup"
    /\ pc = "fetch1"
    /\ SettleAndReturn(resp, OneShotResult("setupIntent", resp))

(***************************************************************************)
(* openModal: the box with its two buttons.                                *)
(***************************************************************************)
Buttons == {"confirm", "cancel"}

\* a slip: the two click listeners are swapped
OpenModalResolves_Swapped(button) == button = "cancel"

\* what the promise of openModal resolves with when the button is clicked
OpenModalResolves(button) == button = "confirm"

\* the user clicks a button of the modal confirmCardSetup awaits
ClickInCardSetup(button) ==
    /\ pressed' = Append(pressed, button)
    /\ ConfirmCardSetupClick(OpenModalResolves(button))

\* the user clicks a button of the modal confirmCardPayment awaits
ClickInCardPayment(button) ==
    /\ pressed' = Append(pressed, button)
    /\ ConfirmCardPaymentClick(OpenModalResolves(button))

(***************************************************************************)
(* The specification.                                                      *)
(***************************************************************************)
\* the page calls one of the entry points
Call ==
    /\ pc = "idle"
    /\ \/ \E element \in Elements : CreateToken(element)
       \/ \E source \in Sources : CreateSource(source)
       \/ \E s \in Secrets, data \in CardSetupData : ConfirmCardSetup(s, data)
       \/ \E s \in Secrets, element \in Elements, data \in HandleCardSetupData :
              HandleCardSetup(s, element, data)
       \/ \E s \in Secrets : ConfirmCardPayment(s)
       \/ \E s \in Secrets : HandleCardPayment(s)
       \/ \E s \in Secrets, data \in SepaData : ConfirmSepaDebitSetup(s, data)

\* an awaited fetch settles
Settle ==
    \E resp \in Settlements :
        \/ CreateTokenSettled(resp)
        \/ CreateSourceSettled(resp)
        \/ ConfirmCardSetupFirstSettled(resp)
        \/ ConfirmCardSetupSecondSettled(resp)
        \/ ConfirmCardPaymentSettled(resp)
        \/ ConfirmSepaDebitSetupSettled(resp)

\* a button of the awaited modal is clicked
Click ==
    \E button \in Buttons :
        \/ ClickInCardSetup(button)
        \/ ClickInCardPayment(button)

Next == Call \/ Settle \/ Click

Spec == Init /\ [][Next]_vars

\* every awaited fetch settles, with a response or a failure, and every
\* modal that was opened gets one of its buttons clicked
SpecLive == Spec /\ WF_vars(Settle) /\ WF_vars(Click)

(***************************************************************************)
(* The parsing of client secrets, followed over longer secrets: the two    *)
(* entry points that parse a setup-intent and a payment-intent secret,     *)
(* called with a well-formed data argument.                                *)
(***************************************************************************)
ParseSecrets == UNION {[1..n -> SecretTokens] : n \in 1..MaxParseLen}

ParseData == [t |-> "object", payment_method |-> [t |-> "object", card |-> PlainCard]]

ParseCall ==
    /\ pc = "idle"
    /\ \/ \E s \in ParseSecrets : ConfirmCardSetup(s, ParseData)
       \/ \E s \in ParseSecrets : ConfirmCardPayment(s)

ParseSettle ==
    \E resp \in Settlements :
        \/ ConfirmCardSetupFirstSettled(resp)
        \/ ConfirmCardSetupSecondSettled(resp)
        \/ ConfirmCardPaymentSettled(resp)

ParseNext == ParseCall \/ ParseSettle \/ Click

SpecParse == Init /\ [][ParseNext]_vars

(***************************************************************************)
(* The card widget (class Element) and the factory elements() returns.     *)
(* The page keeps a reference to every widget it created and may call any  *)
(* method on any of them, in any order.                                    *)
(***************************************************************************)
\* a node of the page that mount() can be given
Node(n) == [t |-> "node", id |-> n]
Nodes == {Node("A"), Node("B")}

\* what the page passes to mount(): a selector, a node, or something else
MountArgs == {Str("#a"), Str("#missing")} \cup Nodes \cup {Undefined}

\* document.querySelector(selector): the first matching node, or null
QuerySelector(sel) == IF sel = "#a" THEN Node("A") ELSE Null

\* the events the page registers handlers for ('change' is the only event
\* the widget ever fires), and the handlers
EventNames == {"change", "ready"}
Handlers == {"h1", "h2"}

FieldNames == {"number", "exp_month", "exp_year", "cvc", "postal_code"}

\* what the user leaves in the postal code field
PostalTexts == {<<"7", "5">>}

\* the five inputs of a freshly mounted widget: all empty
EmptyInputs == [f \in FieldNames |-> <<>>]

\* cardNumber.replace(/\s/g, '')
NoSpaces(cs) == SelectSeq(cs, LAMBDA c : c # " ")

\* a slip: the year is exposed as typed, without its century
ValueOf_BareYear(inputs) ==
    [t |-> "object",
     card |-> [t |-> "object",
               number |-> Text(NoSpaces(inputs.number)),
               exp_month |-> Text(inputs.exp_month),
               exp_year |-> Text(inputs.exp_year),
               cvc |-> Text(inputs.cvc)],
     postal_code |-> Text(inputs.postal_code)]

\* the value the `changed` handler computes from the inputs
ValueOf(inputs) ==
    [t |-> "object",
     card |-> [t |-> "object",
               number |-> Text(NoSpaces(inputs.number)),
               exp_month |-> Text(inputs.exp_month),
               exp_year |-> Text(<<"2", "0">> \o inputs.exp_year),
               cvc |-> Text(inputs.cvc)],
     postal_code |-> Text(inputs.postal_code)]

\* new Element(stripeElements).  destroyCalled is not a field of the code:
\* it records that destroy() was called on the widget; blurPending tells that
\* a timer set by the blur handler of one of its inputs has not run yet.
NewElement ==
    [listeners |-> [e \in EventNames |-> <<>>],
     domChildren |-> <<>>,
     parentElement |-> Null,
     inputs |-> Undefined,
     value |-> Undefined,
     destroyCalled |-> FALSE,
     blurPending |-> FALSE]

ErrOnlyOne == "Can only create one Element of type card"
ErrInvalidDom == "Invalid DOM element. Make sure to call mount() with a valid DOM element or selector."
ErrDestroyed == "This Element has already been destroyed. Please create a new one."
ErrMounted == "This Element is already mounted. Use unmount() to unmount the Element before re-mounting."
ErrAppendToNull == "TypeError: Cannot read properties of null (reading 'appendChild')"

\* the record of a call: its name, the widget it was made on, its argument,
\* the error it threw ("none" when it returned), what it returned (create
\* and getElement) and the handlers it invoked
Op(name, w, arg, err, ret, hs) ==
    [op |-> name, w |-> w, arg |-> arg, error |-> err,
     returned |-> ret, notified |-> hs, tick |-> 1 - lastOp.tick]

\* a slip: unmount() forgets the inputs but leaves the nodes in the page
Unmounted_KeepsNodes(el) == [el EXCEPT !.inputs = Undefined]

\* the widget w with its constructed nodes removed: unmount()
Unmounted(el) ==
    [el EXCEPT !.domChildren = <<>>, !.parentElement = Null, !.inputs = Undefined]

\* a slip: create() does not test the slot
Create_NoGuard ==
    /\ Len(widgets) < MaxWidgets
    /\ widgets' = Append(widgets, NewElement)
    /\ slot' = Len(widgets) + 1
    /\ lastOp' = Op("create", Len(widgets) + 1, Undefined, "none",
                    Len(widgets) + 1, <<>>)
    /\ UNCHANGED evars

\* elements().create('card')
Create ==
    /\ IF slot # 0
       THEN /\ lastOp' = Op("create", 0, Undefined, ErrOnlyOne, 0, <<>>)
            /\ UNCHANGED <<slot, widgets>>
       ELSE /\ Len(widgets) < MaxWidgets
            /\ widgets' = Append(widgets, NewElement)
            /\ slot' = Len(widgets) + 1
            /\ lastOp' = Op("create", Len(widgets) + 1, Undefined, "none",
                            Len(widgets) + 1, <<>>)
    /\ UNCHANGED evars

\* elements().getElement('card')
GetElement ==
    /\ lastOp' = Op("getElement", 0, Undefined, "none", slot, <<>>)
    /\ UNCHANGED <<slot, widgets>>
    /\ UNCHANGED evars

\* a slip: mount() does not test that the widget is the one in the slot
Mount_NoSlotCheck(w, arg) ==
    /\ w \in 1..Len(widgets)
    /\ LET el == widgets[w]
           domElement == IF arg.t = "string" THEN QuerySelector(arg.s) ELSE arg
           built == [el EXCEPT !.domChildren = <<"labelSpan", "container">>,
                               !.inputs = EmptyInputs]
       IN  IF arg.t # "string" /\ arg.t # "node"
           THEN /\ lastOp' = Op("mount", w, arg, ErrInvalidDom, 0, <<>>)
                /\ UNCHANGED widgets
           ELSE IF el.domChildren # <<>>
           THEN /\ lastOp' = Op("mount", w, arg,
                                IF domElement = el.parentElement
                                THEN "none" ELSE ErrMounted, 0, <<>>)
                /\ UNCHANGED widgets
           ELSE IF domElement = Null
           THEN /\ lastOp' = Op("mount", w, arg, ErrAppendToNull, 0, <<>>)
                /\ widgets' = [widgets EXCEPT ![w] = built]
           ELSE /\ lastOp' = Op("mount", w, arg, "none", 0, <<>>)
                /\ widgets' = [widgets EXCEPT
                                 ![w] = [built EXCEPT !.parentElement = domElement]]
    /\ UNCHANGED slot
    /\ UNCHANGED evars

\* a slip: mount() on a mounted widget moves its nodes to the new target
Mount_Moves(w, arg) ==
    /\ w \in 1..Len(widgets)
    /\ LET el == widgets[w]
           domElement == IF arg.t = "string" THEN QuerySelector(arg.s) ELSE arg
           built == [el EXCEPT !.domChildren = <<"labelSpan", "container">>,
                               !.inputs = EmptyInputs]
       IN  IF arg.t # "string" /\ arg.t # "node"
           THEN /\ lastOp' = Op("mount", w, arg, ErrInvalidDom, 0, <<>>)
                /\ UNCHANGED widgets
           ELSE IF slot # w
           THEN /\ lastOp' = Op("mount", w, arg, ErrDestroyed, 0, <<>>)
                /\ UNCHANGED widgets
           ELSE IF domElement = Null
           THEN /\ lastOp' = Op("mount", w, arg, ErrAppendToNull, 0, <<>>)
                /\ widgets' = [widgets EXCEPT ![w] = built]
           ELSE IF el.domChildren # <<>>
           THEN /\ lastOp' = Op("mount", w, arg, "none", 0, <<>>)
                /\ widgets' = [widgets EXCEPT ![w].parentElement = domElement]
           ELSE /\ lastOp' = Op("mount", w, arg, "none", 0, <<>>)
                /\ widgets' = [widgets EXCEPT
                                 ![w] = [built EXCEPT !.parentElement = domElement]]
    /\ UNCHANGED slot
    /\ UNCHANGED evars

\* element.mount(domElement)
Mount(w, arg) ==
    /\ w \in 1..Len(widgets)
    /\ LET el == widgets[w]
           domElement == IF arg.t = "string" THEN QuerySelector(arg.s) ELSE arg
           built == [el EXCEPT !.domChildren = <<"labelSpan", "container">>,
                               !.inputs = EmptyInputs]
       IN  IF arg.t # "string" /\ arg.t # "node"
           THEN /\ lastOp' = Op("mount", w, arg, ErrInvalidDom, 0, <<>>)
                /\ UNCHANGED widgets
           ELSE IF slot # w
           THEN /\ lastOp' = Op("mount", w, arg, ErrDestroyed, 0, <<>>)
                /\ UNCHANGED widgets
           ELSE IF el.domChildren # <<>>
           THEN /\ lastOp' = Op("mount", w, arg,
                                IF domElement = el.parentElement
                                THEN "none" ELSE ErrMounted, 0, <<>>)
                /\ UNCHANGED widgets
           ELSE IF domElement = Null
           THEN /\ lastOp' = Op("mount", w, arg, ErrAppendToNull, 0, <<>>)
                /\ widgets' = [widgets EXCEPT ![w] = built]
           ELSE /\ lastOp' = Op("mount", w, arg, "none", 0, <<>>)
                /\ widgets' = [widgets EXCEPT
                                 ![w] = [built EXCEPT !.parentElement = domElement]]
    /\ UNCHANGED slot
    /\ UNCHANGED evars

\* a slip: unmount() refuses a widget that has no constructed nodes
Unmount_Strict(w) ==
    /\ w \in 1..Len(widgets)
    /\ widgets' = [widgets EXCEPT ![w] = Unmounted(widgets[w])]
    /\ lastOp' = Op("unmount", w, Undefined,
                    IF widgets[w].domChildren = <<>> THEN "This Element is not mounted."
                    ELSE "none", 0, <<>>)
    /\ UNCHANGED slot
    /\ UNCHANGED evars

\* element.unmount()
Unmount(w) ==
    /\ w \in 1..Len(widgets)
    /\ widgets' = [widgets EXCEPT ![w] = Unmounted(widgets[w])]
    /\ lastOp' = Op("unmount", w, Undefined, "none", 0, <<>>)
    /\ UNCHANGED slot
    /\ UNCHANGED evars

\* a slip: destroy() clears the slot but leaves the nodes in the page
Destroy_NoUnmount(w) ==
    /\ w \in 1..Len(widgets)
    /\ widgets' = [widgets EXCEPT ![w].destroyCalled = TRUE]
    /\ slot' = IF slot = w THEN 0 ELSE slot
    /\ lastOp' = Op("destroy", w, Undefined, "none", 0, <<>>)
    /\ UNCHANGED evars

\* a slip: destroy() empties the slot whoever is in it
Destroy_AlwaysClearsSlot(w) ==
    /\ w \in 1..Len(widgets)
    /\ widgets' = [widgets EXCEPT
                     ![w] = [Unmounted(widgets[w]) EXCEPT !.destroyCalled = TRUE]]
    /\ slot' = 0
    /\ lastOp' = Op("destroy", w, Undefined, "none", 0, <<>>)
    /\ UNCHANGED evars

\* element.destroy()
Destroy(w) ==
    /\ w \in 1..Len(widgets)
    /\ widgets' = [widgets EXCEPT
                     ![w] = [Unmounted(widgets[w]) EXCEPT !.destroyCalled = TRUE]]
    /\ slot' = IF slot = w THEN 0 ELSE slot
    /\ lastOp' = Op("destroy", w, Undefined, "none", 0, <<>>)
    /\ UNCHANGED evars

\* element.on(event, handler)
On(w, event, handler) ==
    /\ w \in 1..Len(widgets)
    /\ Len(widgets[w].listeners[event]) < MaxListeners
    /\ widgets' = [widgets EXCEPT
                     ![w].listeners[event] = Append(@, handler)]
    /\ lastOp' = Op("on", w, Str(event), "none", 0, <<>>)
    /\ UNCHANGED slot
    /\ UNCHANGED evars

\* the constructed nodes of the widget are in the page, under a target
Attached(el) == el.domChildren # <<>> /\ el.parentElement # Null

\* the characters [0-9]
DigitChars == <<"0", "1", "2", "3", "4", "5", "6", "7", "8", "9">>

IsDigit(c) == \E i \in 1..Len(DigitChars) : DigitChars[i] = c

\* value.replace(/[^0-9]/g, '')
StripNonDigits(cs) == SelectSeq(cs, IsDigit)

\* value.substring(0, n)
Substring(cs, n) == IF Len(cs) > n THEN SubSeq(cs, 1, n) ELSE cs

\* value.replace(/(.{4})/g, '$1 '): a space after every full group of four
GroupFours(cs) ==
    [i \in 1..(Len(cs) + Len(cs) \div 4) |->
        IF i % 5 = 0 THEN " " ELSE cs[i - i \div 5]]

\* value.trim(): from the first to the last character that is not a space
Trim(cs) ==
    LET kept == {i \in 1..Len(cs) : cs[i] # " "}
    IN  IF kept = {} THEN <<>>
        ELSE SubSeq(cs, CHOOSE i \in kept : \A j \in kept : i <= j,
                        CHOOSE i \in kept : \A j \in kept : j <= i)

\* parseInt(value) of a non-empty string of digits
RECURSIVE ParseInt(_)
ParseInt(cs) ==
    IF cs = <<>> THEN 0
    ELSE 10 * ParseInt(SubSeq(cs, 1, Len(cs) - 1))
         + ((CHOOSE i \in 1..Len(DigitChars) : DigitChars[i] = cs[Len(cs)]) - 1)

\* a slip: the formatted card number is not cut
NumberOnInput_NoCut(raw) == Trim(GroupFours(StripNonDigits(NoSpaces(raw))))

\* number.oninput: what the handler writes back to the field
NumberOnInput(raw) ==
    LET stripped == StripNonDigits(NoSpaces(raw))
        grouped == Trim(GroupFours(stripped))
    IN  Substring(grouped, 19)

\* a slip: a single digit is never padded
ExpMonthOnInput_NoPad(raw) ==
    LET digits == Substring(StripNonDigits(raw), 2)
    IN  IF Len(digits) = 2 /\ ParseInt(digits) > 12 THEN <<"1", "2">> ELSE digits

\* exp_month.oninput
ExpMonthOnInput(raw) ==
    LET digits == Substring(StripNonDigits(raw), 2)
        clamped == IF Len(digits) = 2 /\ ParseInt(digits) > 12
                   THEN <<"1", "2">> ELSE digits
    IN  IF Len(clamped) = 1 /\ ParseInt(clamped) > 1
        THEN <<"0">> \o clamped ELSE clamped

\* exp_year.oninput
ExpYearOnInput(raw) == Substring(StripNonDigits(raw), 2)

\* cvc.oninput
CvcOnInput(raw) == Substring(StripNonDigits(raw), 4)

\* the oninput handler of each field: what it leaves in the field (the
\* postal code field has `changed` itself as its handler)
OnInput(field, raw) ==
    CASE field = "number" -> NumberOnInput(raw)
      [] field = "exp_month" -> ExpMonthOnInput(raw)
      [] field = "exp_year" -> ExpYearOnInput(raw)
      [] field = "cvc" -> CvcOnInput(raw)
      [] OTHER -> raw

\* a slip: the handlers are called last registered first
Notified_Reversed(hs, value) ==
    [i \in 1..Len(hs) |-> [handler |-> hs[Len(hs) + 1 - i], saw |-> value]]

\* (this.listeners['change'] || []).forEach(handler => handler()): the
\* handlers called, in order, each with the value it finds on the widget
Notified(hs, value) ==
    [i \in 1..Len(hs) |-> [handler |-> hs[i], saw |-> value]]

\* an input event on a field of the widget w, in which the user left `raw`:
\* the handler of the field rewrites it, then `changed` computes the value
\* and calls the handlers
Input(w, field, raw) ==
    /\ w \in 1..Len(widgets)
    /\ Attached(widgets[w])
    /\ LET inputs == [widgets[w].inputs EXCEPT ![field] = OnInput(field, raw)]
       IN  /\ widgets' = [widgets EXCEPT ![w].inputs = inputs,
                                         ![w].value = ValueOf(inputs)]
           /\ lastOp' = Op("input", w,
                           [t |-> "event", field |-> field, raw |-> Text(raw)],
                           "none", 0,
                           Notified(widgets[w].listeners["change"],
                                    ValueOf(inputs)))
    /\ UNCHANGED slot
    /\ UNCHANGED evars

\* an input event on the postal code field, whose oninput is `changed`:
\* the user left `text` in the field
InputPostalCode(w, text) == Input(w, "postal_code", text)

\* the page calls the factory or a widget, or the user types
WidgetNext ==
    \/ Create
    \/ GetElement
    \/ \E w \in 1..MaxWidgets, arg \in MountArgs : Mount(w, arg)
    \/ \E w \in 1..MaxWidgets : Unmount(w)
    \/ \E w \in 1..MaxWidgets : Destroy(w)
    \/ \E w \in 1..MaxWidgets, e \in {"change"}, h \in {"h1"} : On(w, e, h)
    \/ \E w \in 1..MaxWidgets, text \in PostalTexts : InputPostalCode(w, text)

SpecWidget == Init /\ [][WidgetNext]_vars

(***************************************************************************)
(* The focus and blur handlers of the inputs of a mounted widget.          *)
(***************************************************************************)
ErrObjectValues == "TypeError: Cannot convert undefined or null to object"

\* input.onfocus: updateContainerFocus(true) restyles the container
Focus(w) ==
    /\ w \in 1..Len(widgets)
    /\ Attached(widgets[w])
    /\ lastOp' = Op("focus", w, Undefined, "none", 0, <<>>)
    /\ UNCHANGED <<slot, widgets>>
    /\ UNCHANGED evars

\* input.onblur: sets a timer; at most one is followed per widget
Blur(w) ==
    /\ w \in 1..Len(widgets)
    /\ Attached(widgets[w])
    /\ ~widgets[w].blurPending
    /\ widgets' = [widgets EXCEPT ![w].blurPending = TRUE]
    /\ lastOp' = Op("blur", w, Undefined, "none", 0, <<>>)
    /\ UNCHANGED slot
    /\ UNCHANGED evars

\* the timer of the blur handler runs: Object.values(this._inputs) reads
\* the inputs the widget has now
BlurTimer(w) ==
    /\ w \in 1..Len(widgets)
    /\ widgets[w].blurPending
    /\ widgets' = [widgets EXCEPT ![w].blurPending = FALSE]
    /\ lastOp' = Op("blurTimer", w, Undefined,
                    IF widgets[w].inputs = Undefined THEN ErrObjectValues ELSE "none",
                    0, <<>>)
    /\ UNCHANGED slot
    /\ UNCHANGED evars

\* the calls of the page, the keystrokes, and the focus changes
FocusNext ==
    \/ WidgetNext
    \/ \E w \in 1..MaxWidgets : Focus(w)
    \/ \E w \in 1..MaxWidgets : Blur(w)
    \/ \E w \in 1..MaxWidgets : BlurTimer(w)

SpecFocus == Init /\ [][FocusNext]_vars

(***************************************************************************)
(* What the user types or pastes into the fields of a mounted widget.      *)
(***************************************************************************)
\* the keys pressed: digits, the space bar and a letter
Alphabet == {"0", "1", "3", "5", " ", "x"}

\* one or two keys
Patterns == {<<a>> : a \in Alphabet} \cup {<<a, b>> : a, b \in Alphabet}

Repeat(p, k) == [i \in 1..(k * Len(p)) |-> p[((i - 1) % Len(p)) + 1]]

\* the texts pasted into a field: a pattern, repeated
RawTexts == {Repeat(p, k) : p \in Patterns, k \in 1..MaxRepeat}

\* what a user filling the form types into each field
SampleTexts ==
    [number |-> <<"5", "1", "0", "5", " ", "1">>,
     exp_month |-> <<"1", "0">>,
     exp_year |-> <<"3", "0">>,
     cvc |-> <<"1", "3", "5">>,
     postal_code |-> <<"7", "5">>]

\* the fields, in the order the widget lays them out
FieldOrder == <<"number", "exp_month", "exp_year", "cvc", "postal_code">>

\* what the samples leave in the fields
SampleShown == [f \in FieldNames |-> OnInput(f, SampleTexts[f])]

\* the first fields hold what their samples leave in them, the others are
\* still empty
FilledInOrder(inputs) ==
    \E k \in 0..Len(FieldOrder) :
       \A i \in 1..Len(FieldOrder) :
          inputs[FieldOrder[i]] =
             IF i <= k THEN SampleShown[FieldOrder[i]] ELSE <<>>

\* the last keystrokes, if any, were a sample
NothingPasted ==
    lastOp.op = "input" => lastOp.arg.raw = Text(SampleTexts[lastOp.arg.field])

\* the user fills the fields in order with the samples, and at some point
\* pastes a text into one field
Paste(w) ==
    /\ NothingPasted
    /\ w \in 1..Len(widgets)
    /\ Attached(widgets[w])
    /\ FilledInOrder(widgets[w].inputs)
    /\ \E f \in FieldNames :
          \E raw \in RawTexts \cup {SampleTexts[f]} : Input(w, f, raw)

\* one widget is created and mounted, and the user types into its fields
InputNext ==
    \/ Create
    \/ \E arg \in {Node("A")} : Mount(1, arg)
    \/ Paste(1)

SpecInput == Init /\ [][InputNext]_vars

\* the registrations of the page: two handlers of 'change', and one of an
\* event the widget never fires
Registrations == {<<"change", "h1">>, <<"change", "h2">>, <<"ready", "h1">>}

\* one widget is created and mounted, the page registers handlers on it and
\* the user fills its fields
NotifyNext ==
    \/ Create
    \/ \E arg \in {Node("A")} : Mount(1, arg)
    \/ \E r \in Registrations : On(1, r[1], r[2])
    \/ \E f \in FieldNames : Input(1, f, SampleTexts[f])

SpecNotify == Init /\ [][NotifyNext]_vars

\* one widget is created, mounted, unmounted and mounted again while the
\* user fills its fields
RemountNext ==
    \/ Create
    \/ \E arg \in {Node("A")} : Mount(1, arg)
    \/ Unmount(1)
    \/ \E f \in FieldNames : Input(1, f, SampleTexts[f])

SpecRemount == Init /\ [][RemountNext]_vars

(***************************************************************************)
(* A page with one widget and one data object {payment_method: {card:      *)
(* widget}} that it keeps and passes to confirmCardSetup, more than once,  *)
(* while the user goes on typing.                                          *)
(***************************************************************************)
\* the widget a reference designates, as it is now
WidgetOf(ref) ==
    [t |-> "Element", w |-> ref.w, value |-> widgets[ref.w].value]

\* the object the page keeps, as the callee sees it at the call
PassedData ==
    IF page.data.payment_method.card.t = "Element"
    THEN [page.data EXCEPT !.payment_method.card = WidgetOf(@)]
    ELSE page.data

\* the object the page keeps, once confirmCardSetup has run up to its first
\* fetch: the assignments to data.payment_method.card and
\* data.payment_method.billing_details are made on the caller's object
DataAfterCall(s, data) ==
    IF Match("seti_", s) = Null \/ CardSetupDataThrows(data)
    THEN page.data
    ELSE [data EXCEPT !.payment_method = SplicedPaymentMethod(data.payment_method)]

\* stripe.confirmCardSetup(clientSecret, data) with the object the page keeps
ConfirmCardSetupKeptData(s) ==
    /\ page.invocations < MaxInvocations
    /\ Len(widgets) >= 1
    /\ args' = [t |-> "arguments", clientSecret |-> s, data |-> PassedData]
    /\ page' = [data |-> DataAfterCall(s, PassedData),
                invocations |-> page.invocations + 1]
    /\ ConfirmCardSetupCall("confirmCardSetup", s, PassedData)

\* the page receives the result of the invocation
PageResumes ==
    /\ pc = "done"
    /\ page.invocations >= 1
    /\ pc' = "idle"
    /\ UNCHANGED <<entry, secret, seti, calls, responses, modals, clicks, result,
                   trace, slot, widgets, lastOp, args, pressed, page>>

\* a well-formed secret of a setup intent
PageSecrets == {<<"seti_", "w", "_secret_">>}

\* the fields the user types into
PageFields == {"number", "postal_code"}

\* how the fetches of these invocations settle: the intent succeeded, it
\* requires the challenge, or the network failed
PageSettlements ==
    {[kind |-> "response", status |-> 200, decodable |-> TRUE,
      json |-> [t |-> "object", tag |-> 1, status |-> Str(st)]] :
         st \in {"succeeded", "requires_action"}}
    \cup {[kind |-> "rejected", err |-> TypeError("Failed to fetch")]}

PageNext ==
    \/ Create
    \/ \E arg \in {Node("A")} : Mount(1, arg)
    \/ Unmount(1)
    \/ Destroy(1)
    \/ \E f \in PageFields : Input(1, f, SampleTexts[f])
    \/ \E s \in PageSecrets : ConfirmCardSetupKeptData(s)
    \/ \E resp \in PageSettlements : ConfirmCardSetupFirstSettled(resp)
    \/ \E resp \in PageSettlements : ConfirmCardSetupSecondSettled(resp)
    \/ \E button \in Buttons : ClickInCardSetup(button)
    \/ PageResumes

SpecPage == Init /\ [][PageNext]_vars

(***************************************************************************)
(* Vocabulary of the properties.                                           *)
(***************************************************************************)
\* the response is HTTP 200 and its body, if it decodes, has no error field
Ok200(resp) ==
    /\ resp.kind = "response"
    /\ resp.status = 200
    /\ resp.decodable => "error" \notin DOMAIN resp.json

\* the response carries a decoded body whose status is st
HasStatus(resp, st) ==
    /\ resp.kind = "response"
    /\ resp.decodable
    /\ "status" \in DOMAIN resp.json
    /\ resp.json.status = Str(st)

\* the body the script works with: the decoded one, {} when none decodes
DecodedOrEmpty(resp) == IF resp.decodable THEN resp.json ELSE [t |-> "object"]

SuccessFields == {"setupIntent", "paymentIntent", "token", "source"}

\* the first confirm call of a card setup was answered 200, no error, status st
FirstAnswered(st) ==
    /\ entry \in CardSetupEntries
    /\ Len(responses) >= 1
    /\ Ok200(responses[1])
    /\ HasStatus(responses[1], st)

AuthenticationFailed ==
    [t |-> "object",
     error |-> [t |-> "object",
                message |-> "The latest attempt to set up the payment method has failed because authentication failed."]]

(***************************************************************************)
(* C1: in confirmCardSetup, when the first confirm call returns HTTP 200   *)
(* with no error field and status "succeeded", the result is exactly       *)
(* {error: null, setupIntent: <body of that response>}, no second network  *)
(* call is made and the modal is never opened.                             *)
(***************************************************************************)
C1_SucceededAtOnce ==
    FirstAnswered("succeeded") =>
        /\ pc = "done"
        /\ result = [t |-> "object", error |-> [t |-> "null"],
                     setupIntent |-> responses[1].json]
        /\ Len(calls) = 1
        /\ Len(responses) = 1
        /\ modals = 0
        /\ clicks = <<>>

C1_Witness ==
    /\ entry = "confirmCardSetup"
    /\ FirstAnswered("succeeded")
    /\ pc = "done"
    /\ result.setupIntent.tag = 2

(***************************************************************************)
(* C2: in confirmCardSetup, when the first confirm call returns            *)
(* "requires_action" and the modal resolves true, exactly one more network *)
(* call is made; it goes to the confirm endpoint of the same intent id     *)
(* with the same client secret and use_stripe_sdk = true and carries no    *)
(* payment_method_data; if it returns "succeeded" the result is            *)
(* {error: null, setupIntent: <body of the second response>}.              *)
(***************************************************************************)
C2_AcceptedChallenge ==
    (FirstAnswered("requires_action") /\ clicks = <<TRUE>>) =>
        /\ Len(calls) = 2
        /\ calls[2].url.resource = "setup_intents"
        /\ calls[2].url.action = "confirm"
        /\ calls[2].url.id = calls[1].url.id
        /\ calls[2].url = calls[1].url
        /\ calls[2].method = "POST"
        /\ calls[2].body.client_secret = secret
        /\ calls[2].body.client_secret = calls[1].body.client_secret
        /\ calls[2].body.use_stripe_sdk = TRUE
        /\ "payment_method_data" \notin DOMAIN calls[2].body
        /\ Len(responses) = 2 => pc = "done"
        /\ (Len(responses) = 2 /\ Ok200(responses[2])
                /\ HasStatus(responses[2], "succeeded")) =>
               result = [t |-> "object", error |-> [t |-> "null"],
                         setupIntent |-> responses[2].json]

C2_Witness ==
    /\ entry = "confirmCardSetup"
    /\ FirstAnswered("requires_action")
    /\ clicks = <<TRUE>>
    /\ pc = "done"
    /\ Len(responses) = 2
    /\ Ok200(responses[2])
    /\ HasStatus(responses[2], "succeeded")
    /\ responses[1].json.tag = 1
    /\ result.setupIntent.tag = 2

(***************************************************************************)
(* C3, as claimed: when the first confirm call returns "requires_action"   *)
(* and the modal resolves false, the one additional network call goes to   *)
(* the cancel endpoint and never to the confirm endpoint, and the final    *)
(* result is the authentication-failed error, whatever the cancel call     *)
(* answers.                                                                *)
(***************************************************************************)
C3_RejectedChallenge_AsClaimed ==
    (FirstAnswered("requires_action") /\ clicks = <<FALSE>>) =>
        /\ Len(calls) = 2
        /\ calls[2].url.action = "cancel"
        /\ calls[2].url.id = calls[1].url.id
        /\ pc = "done" => result = AuthenticationFailed

(***************************************************************************)
(* C3, amended: when the first confirm call returns "requires_action" and  *)
(* the modal resolves false, the one additional network call goes to the   *)
(* cancel endpoint of the same intent and never to the confirm endpoint;   *)
(* the final result is the authentication-failed error exactly when the    *)
(* cancel call is answered 200 without a truthy error and with a status    *)
(* other than "succeeded".  A cancel call that fails surfaces its own      *)
(* error instead.                                                          *)
(***************************************************************************)
C3_RejectedChallenge ==
    (FirstAnswered("requires_action") /\ clicks = <<FALSE>>) =>
        /\ Len(calls) = 2
        /\ calls[2].url.resource = "setup_intents"
        /\ calls[2].url.action = "cancel"
        /\ calls[2].url.id = calls[1].url.id
        /\ Len(responses) = 2 => pc = "done"
        /\ pc = "done" =>
              (result = AuthenticationFailed
                 <=> /\ Ok200(responses[2])
                     /\ ~HasStatus(responses[2], "succeeded"))

C3_Witness ==
    /\ entry = "confirmCardSetup"
    /\ FirstAnswered("requires_action")
    /\ clicks = <<FALSE>>
    /\ pc = "done"
    /\ calls[2].url.action = "cancel"
    /\ HasStatus(responses[2], "canceled")
    /\ result = AuthenticationFailed

(***************************************************************************)
(* C4: in confirmCardSetup, when the first confirm call returns HTTP 200   *)
(* with no error field and a status S that is neither "succeeded" nor      *)
(* "requires_action", the result is                                        *)
(* {error: {message: "setup_intent has status S"}}, no further network     *)
(* call is made and the modal is never opened.                             *)
(***************************************************************************)
C4_OtherStatus ==
    \A st \in Statuses \ {"succeeded", "requires_action"} :
        FirstAnswered(st) =>
            /\ pc = "done"
            /\ result = [t |-> "object",
                         error |-> [t |-> "object",
                                    message |-> "setup_intent has status " \o st]]
            /\ Len(calls) = 1
            /\ Len(responses) = 1
            /\ modals = 0
            /\ clicks = <<>>

C4_Witness ==
    /\ entry = "confirmCardSetup"
    /\ FirstAnswered("foo")
    /\ pc = "done"
    /\ result.error.message = "setup_intent has status foo"

(***************************************************************************)
(* C5: one invocation of confirmCardSetup issues at most two network       *)
(* calls, whatever the backend answers and whatever button is clicked:     *)
(* the initial confirm, then at most one of {second confirm, cancel};      *)
(* there is never a third call and never a retry, also when the second     *)
(* call fails or returns "requires_action" again.                          *)
(***************************************************************************)
C5_AtMostTwoCalls ==
    entry \in CardSetupEntries =>
        /\ Len(calls) <= 2
        /\ Len(responses) <= Len(calls)
        /\ modals <= 1
        /\ Len(calls) >= 1 =>
              /\ calls[1].url.action = "confirm"
              /\ "payment_method_data" \in DOMAIN calls[1].body
        /\ Len(calls) = 2 =>
              /\ calls[2].url.action \in {"confirm", "cancel"}
              /\ calls[2].url.id = calls[1].url.id
        /\ Len(responses) = 2 => pc = "done"
        /\ pc = "done" => Len(responses) = Len(calls)

C5_Witness ==
    /\ entry = "confirmCardSetup"
    /\ pc = "done"
    /\ Len(calls) = 2
    /\ calls[2].url.action = "confirm"
    /\ Ok200(responses[2])
    /\ HasStatus(responses[2], "requires_action")

(***************************************************************************)
(* C6: within one confirmCardSetup invocation the steps are strictly       *)
(* ordered: the modal is opened only after the first confirm call has      *)
(* completed with status "requires_action", it is opened at most once,     *)
(* and the second confirm/cancel call is issued only after both the first  *)
(* call has completed and the modal has resolved.                          *)
(***************************************************************************)
C6_StrictOrder ==
    entry \in CardSetupEntries =>
        /\ Cardinality({i \in 1..Len(trace) : trace[i] = "openModal"}) <= 1
        /\ \A i \in 1..Len(trace) :
              trace[i] = "openModal" =>
                  /\ i = 3
                  /\ trace[1] = "fetch"
                  /\ trace[2] = "settled"
                  /\ Ok200(responses[1])
                  /\ HasStatus(responses[1], "requires_action")
        /\ \A i \in 2..Len(trace) :
              trace[i] = "fetch" =>
                  /\ i = 5
                  /\ SubSeq(trace, 1, 4) = <<"fetch", "settled", "openModal", "click">>
                  /\ Len(clicks) = 1

C6_Witness ==
    /\ entry = "confirmCardSetup"
    /\ pc = "done"
    /\ trace = <<"fetch", "settled", "openModal", "click", "fetch", "settled", "return">>

(***************************************************************************)
(* C7, as claimed: confirmCardPayment opens the modal exactly once and     *)
(* before any network call, then issues exactly one network call, to the   *)
(* payment intent's _authenticate endpoint with the query parameter        *)
(* success equal to the outcome of the modal; it returns                   *)
(* {paymentIntent: <body>} when that response is 200 with no error field   *)
(* and {error} otherwise, without branching on the returned status.        *)
(***************************************************************************)
C7_PaymentOneShot_AsClaimed ==
    entry \in CardPaymentEntries =>
        /\ modals = 1
        /\ trace[1] = "openModal"
        /\ Len(calls) <= 1
        /\ Len(calls) = 1 =>
              /\ Len(clicks) = 1
              /\ calls[1].url.resource = "payment_intents"
              /\ calls[1].url.action = "_authenticate"
              /\ calls[1].url.query =
                     (IF clicks[1] THEN "success=true" ELSE "success=false")
        /\ pc = "done" =>
              /\ Len(calls) = 1
              /\ Len(responses) = 1
              /\ IF Ok200(responses[1])
                 THEN result = [t |-> "object",
                                paymentIntent |-> DecodedOrEmpty(responses[1])]
                 ELSE /\ "error" \in DOMAIN result
                      /\ "paymentIntent" \notin DOMAIN result

(***************************************************************************)
(* C7, amended: confirmCardPayment opens the modal exactly once and before *)
(* any network call.  When the client secret matches pi_..._secret_ it     *)
(* then issues exactly one network call, to the payment intent's           *)
(* _authenticate endpoint with success equal to the outcome of the modal,  *)
(* and returns {paymentIntent: <body>} when that response is 200 with no   *)
(* error field and {error} otherwise, without branching on the returned    *)
(* status.  When the secret does not match, it issues no network call and  *)
(* returns {error} after the modal has resolved.                           *)
(***************************************************************************)
C7_PaymentOneShot ==
    entry \in CardPaymentEntries =>
        /\ modals = 1
        /\ trace[1] = "openModal"
        /\ Len(calls) <= 1
        /\ Len(calls) = 1 =>
              /\ Len(clicks) = 1
              /\ calls[1].url.resource = "payment_intents"
              /\ calls[1].url.action = "_authenticate"
              /\ calls[1].url.id = Match("pi_", secret).group1
              /\ calls[1].url.query =
                     (IF clicks[1] THEN "success=true" ELSE "success=false")
        /\ pc = "done" =>
              /\ Len(clicks) = 1
              /\ IF Match("pi_", secret) = [t |-> "null"]
                 THEN /\ Len(calls) = 0
                      /\ "error" \in DOMAIN result
                      /\ "paymentIntent" \notin DOMAIN result
                 ELSE /\ Len(calls) = 1
                      /\ Len(responses) = 1
                      /\ IF Ok200(responses[1])
                         THEN result = [t |-> "object",
                                        paymentIntent |-> DecodedOrEmpty(responses[1])]
                         ELSE /\ "error" \in DOMAIN result
                              /\ "paymentIntent" \notin DOMAIN result

C7_Witness ==
    /\ entry = "confirmCardPayment"
    /\ pc = "done"
    /\ clicks = <<FALSE>>
    /\ Len(calls) = 1
    /\ calls[1].url.query = "success=false"
    /\ Ok200(responses[1])
    /\ HasStatus(responses[1], "requires_action")
    /\ "paymentIntent" \in DOMAIN result

(***************************************************************************)
(* C8: confirmSepaDebitSetup has no challenge branch: for every backend    *)
(* response, including status "requires_action", it makes exactly one      *)
(* network call, never opens the modal, and surfaces the response as it    *)
(* is: {setupIntent: <body>} when 200 with no error field, {error}         *)
(* otherwise.                                                              *)
(***************************************************************************)
C8_SepaOneShot ==
    entry = "confirmSepaDebitSetup" =>
        /\ modals = 0
        /\ clicks = <<>>
        /\ Len(calls) <= 1
        /\ Len(responses) = 1 =>
              /\ pc = "done"
              /\ Len(calls) = 1
              /\ calls[1].url.action = "confirm"
              /\ IF Ok200(responses[1])
                 THEN result = [t |-> "object",
                                setupIntent |-> DecodedOrEmpty(responses[1])]
                 ELSE /\ "error" \in DOMAIN result
                      /\ "setupIntent" \notin DOMAIN result
                      /\ (responses[1].kind = "response" /\ responses[1].decodable
                             /\ "error" \in DOMAIN responses[1].json) =>
                            result = [t |-> "object", error |-> responses[1].json.error]

C8_Witness ==
    /\ entry = "confirmSepaDebitSetup"
    /\ pc = "done"
    /\ Len(responses) = 1
    /\ Ok200(responses[1])
    /\ HasStatus(responses[1], "requires_action")
    /\ result.setupIntent = responses[1].json

\* how the last fetch of the invocation settled
LastSettlement == responses[Len(responses)]

\* the result carries an error that is neither undefined nor null
ErrorPopulated ==
    /\ "error" \in DOMAIN result
    /\ result.error.t \notin {"undefined", "null"}

(***************************************************************************)
(* C9: in every entry point, a response whose status code is not exactly   *)
(* 200, or whose decoded body carries an error field, makes the call fail  *)
(* with an error surfaced in the result: the decoded error when the body   *)
(* has one, otherwise a synthesized one, so that the returned error is     *)
(* always populated on failure.                                            *)
(***************************************************************************)
C9_FailureSurfacesError ==
    (/\ pc = "done"
     /\ Len(responses) >= 1
     /\ LastSettlement.kind = "response"
     /\ \/ LastSettlement.status # 200
        \/ LastSettlement.decodable /\ "error" \in DOMAIN LastSettlement.json) =>
        /\ result.t = "object"
        /\ ErrorPopulated
        /\ DOMAIN result \cap SuccessFields = {}
        /\ (LastSettlement.decodable /\ "error" \in DOMAIN LastSettlement.json) =>
              result.error = LastSettlement.json.error

(***************************************************************************)
(* C10: network-level exceptions and JSON-parse failures of a response     *)
(* body are both converted into the shape {error: <cause>}: in every entry *)
(* point, when the fetch rejects or the response body cannot be decoded as *)
(* JSON (whatever the status code), the returned result has a populated    *)
(* error and no success field.                                             *)
(***************************************************************************)
C10_TransportFailureIsError ==
    (/\ pc = "done"
     /\ Len(responses) >= 1
     /\ \/ LastSettlement.kind = "rejected"
        \/ LastSettlement.kind = "response" /\ ~LastSettlement.decodable) =>
        /\ result.t = "object"
        /\ ErrorPopulated
        /\ DOMAIN result \cap SuccessFields = {}

(***************************************************************************)
(* C11: no public asynchronous entry point ever throws or rejects past the *)
(* public boundary: for all arguments (including a widget whose value was  *)
(* never set and an omitted data argument) and all backend behaviours, the *)
(* call resolves with a result object, internal exceptions being caught    *)
(* and converted to {error}.                                               *)
(***************************************************************************)
C11_NeverRejects ==
    pc = "done" =>
        /\ result.t = "object"
        /\ result.t # "rejected"

(***************************************************************************)
(* C12: the result returned by any entry point is a discriminated union:   *)
(* it never has both a populated error and a populated success field       *)
(* (setupIntent / paymentIntent / token / source), whatever the backend    *)
(* answers, whatever is thrown and whatever button is clicked.             *)
(***************************************************************************)
C12_DiscriminatedUnion ==
    (pc = "done" /\ result.t = "object") =>
        ~ /\ ErrorPopulated
          /\ \E f \in SuccessFields :
                /\ f \in DOMAIN result
                /\ result[f].t \notin {"undefined", "null"}

C12_Witness ==
    /\ entry = "confirmCardSetup"
    /\ pc = "done"
    /\ Len(responses) = 2
    /\ clicks = <<TRUE>>
    /\ {"error", "setupIntent"} \subseteq DOMAIN result
    /\ result.error.t = "null"
    /\ result.setupIntent.t = "object"

\* the secret is <prefix><word characters>_secret_<anything>
WellFormed(prefix, s) ==
    /\ Len(s) >= 3
    /\ s[1] = prefix
    /\ \E k \in 3..Len(s) :
          /\ s[k] = "_secret_"
          /\ \A j \in 2..(k - 1) : s[j] \in {"seti_", "pi_", "w", "_secret_"}

\* the prefix of the resource kind an entry point works on
KindPrefix(e) == IF e = "confirmCardPayment" THEN "pi_" ELSE "seti_"

ClaimedForm(prefix, s, k) ==
    /\ k \in 3..Len(s)
    /\ s[1] = prefix
    /\ s[k] = "_secret_"
    /\ \A j \in 2..(k - 1) : s[j] \in {"seti_", "pi_", "w"}

(***************************************************************************)
(* C14: client-secret round trip: for every resource id R of the form      *)
(* seti_<word characters> (resp. pi_<word characters>) and every suffix T, *)
(* the call given R + "_secret_" + T puts exactly R in the URL of its      *)
(* request: the id is the text up to the first "_secret_".                 *)
(***************************************************************************)
C14_RoundTrip ==
    \A k \in 1..Len(secret) :
        (/\ entry \in {"confirmCardSetup", "confirmCardPayment"}
         /\ ClaimedForm(KindPrefix(entry), secret, k)
         /\ calls # <<>>) =>
            calls[1].url.id = SubSeq(secret, 1, k - 1)

\* this step is a call of the operation `name`
Did(name) == lastOp' # lastOp /\ lastOp'.op = name

\* the widgets destroy() was never called on
Live(ws) == {w \in 1..Len(ws) : ~ws[w].destroyCalled}

(***************************************************************************)
(* C15: per factory, at most one non-destroyed widget exists at any time   *)
(* (and it is the one in the slot): create() while the slot holds a widget *)
(* throws, and the failed create leaves the slot and every widget (mount   *)
(* state, fields, value, listeners) unchanged.                             *)
(***************************************************************************)
C15_OneWidget ==
    [][/\ (Did("create") /\ slot # 0) =>
             /\ lastOp'.error = ErrOnlyOne
             /\ slot' = slot
             /\ widgets' = widgets
       /\ Cardinality(Live(widgets')) <= 1
       /\ Live(widgets') = IF slot' = 0 THEN {} ELSE {slot'}]_vars

C15_Witness ==
    /\ lastOp.op = "create"
    /\ lastOp.error = ErrOnlyOne
    /\ slot = 2
    /\ Attached(widgets[2])
    /\ widgets[2].value # Undefined
    /\ widgets[2].listeners["change"] # <<>>
    /\ widgets[1].destroyCalled

(***************************************************************************)
(* C16: destroyed is absorbing: once destroy() has been called on a        *)
(* widget, every later mount() on it throws, whatever create, mount,       *)
(* unmount and destroy calls were made on the factory in between           *)
(* (including after a new widget was created in the slot); the widget      *)
(* stays destroyed, never returns to the slot and never has nodes          *)
(* attached again.                                                         *)
(***************************************************************************)
C16_DestroyedAbsorbing ==
    [][\A w \in 1..Len(widgets) :
          widgets[w].destroyCalled =>
              /\ widgets'[w].destroyCalled
              /\ slot' # w
              /\ ~Attached(widgets'[w])
              /\ (Did("mount") /\ lastOp'.w = w) => lastOp'.error # "none"]_vars

C16_Witness ==
    /\ lastOp.op = "mount"
    /\ lastOp.w = 1
    /\ lastOp.arg = Node("A")
    /\ lastOp.error = ErrDestroyed
    /\ widgets[1].destroyCalled
    /\ slot = 2

(***************************************************************************)
(* C17: destroy() on the factory's current widget, mounted or not, first   *)
(* unmounts it (no constructed node stays, attached or not) and clears the *)
(* slot; the next create() on the factory then succeeds with a fresh       *)
(* widget, and getElement() returns the widget in the slot.                *)
(***************************************************************************)
C17_DestroyFreesSlot ==
    [][/\ (Did("destroy") /\ slot # 0 /\ lastOp'.w = slot) =>
             /\ lastOp'.error = "none"
             /\ widgets'[slot].domChildren = <<>>
             /\ widgets'[slot].inputs = Undefined
             /\ slot' = 0
       /\ (Did("create") /\ slot = 0) =>
             /\ lastOp'.error = "none"
             /\ slot' = Len(widgets) + 1
             /\ lastOp'.returned = slot'
             /\ widgets'[slot'] = NewElement
       /\ Did("getElement") =>
             /\ lastOp'.returned = slot
             /\ slot' = slot]_vars

C17_Witness ==
    /\ lastOp.op = "getElement"
    /\ lastOp.returned = 2
    /\ slot = 2
    /\ widgets[1].destroyCalled
    /\ widgets[1].value # Undefined
    /\ widgets[1].domChildren = <<>>

\* the node a mount() argument designates: the node itself, or the node
\* its selector resolves to; null when there is none
TargetOf(arg) ==
    IF arg \in Nodes THEN arg
    ELSE IF arg.t = "string" /\ QuerySelector(arg.s) \in Nodes THEN QuerySelector(arg.s)
    ELSE Null

(***************************************************************************)
(* C18: mount(target) on a widget already mounted to the same target is a  *)
(* no-op: no error, and the constructed fields, their contents and the     *)
(* value stay as they are; mount(target) on a widget mounted to another    *)
(* target throws and leaves the widget mounted to its original target;     *)
(* once it is unmounted, the widget in the slot mounts to any target.      *)
(***************************************************************************)
C18_MountTwice ==
    [][\A w \in 1..Len(widgets) :
          (Did("mount") /\ lastOp'.w = w /\ TargetOf(lastOp'.arg) # Null) =>
              /\ (Attached(widgets[w])
                    /\ TargetOf(lastOp'.arg) = widgets[w].parentElement) =>
                      /\ lastOp'.error = "none"
                      /\ widgets' = widgets
                      /\ slot' = slot
              /\ (Attached(widgets[w])
                    /\ TargetOf(lastOp'.arg) # widgets[w].parentElement) =>
                      /\ lastOp'.error = ErrMounted
                      /\ widgets' = widgets
                      /\ slot' = slot
              /\ (slot = w /\ widgets[w].domChildren = <<>>) =>
                      /\ lastOp'.error = "none"
                      /\ Attached(widgets'[w])
                      /\ widgets'[w].parentElement = TargetOf(lastOp'.arg)
                      /\ widgets'[w].inputs = EmptyInputs
                      /\ widgets'[w].value = widgets[w].value]_vars

C18_Witness ==
    /\ lastOp.op = "mount"
    /\ lastOp.w = 1
    /\ lastOp.arg = Str("#a")
    /\ lastOp.error = "none"
    /\ Attached(widgets[1])
    /\ widgets[1].parentElement = Node("A")
    /\ widgets[1].inputs.postal_code = <<"7", "5">>
    /\ widgets[1].value = ValueOf(widgets[1].inputs)

(***************************************************************************)
(* C19: every mount() call whose target is a selector resolving to no node *)
(* or an argument that is neither a string nor a node raises a             *)
(* caller-visible error, in every state of a non-destroyed widget and      *)
(* however many times the call is repeated.                                *)
(***************************************************************************)
C19_InvalidTargetThrows ==
    (/\ lastOp.op = "mount"
     /\ TargetOf(lastOp.arg) = Null
     /\ ~widgets[lastOp.w].destroyCalled) =>
        lastOp.error # "none"

(***************************************************************************)
(* C20: unmount() is idempotent: it detaches and discards every            *)
(* constructed node (and the inputs with them), never raises an error, and *)
(* on a widget without constructed nodes (unmounted already, never mounted *)
(* or destroyed) it changes nothing; value, listeners and the slot are     *)
(* never touched.                                                          *)
(***************************************************************************)
C20_UnmountIdempotent ==
    [][\A w \in 1..Len(widgets) :
          (Did("unmount") /\ lastOp'.w = w) =>
              /\ lastOp'.error = "none"
              /\ widgets'[w].domChildren = <<>>
              /\ widgets'[w].inputs = Undefined
              /\ ~Attached(widgets'[w])
              /\ widgets'[w].value = widgets[w].value
              /\ widgets'[w].listeners = widgets[w].listeners
              /\ widgets'[w].destroyCalled = widgets[w].destroyCalled
              /\ \A v \in 1..Len(widgets) : v # w => widgets'[v] = widgets[v]
              /\ Len(widgets') = Len(widgets)
              /\ slot' = slot
              /\ widgets[w].domChildren = <<>> => widgets' = widgets]_vars

C20_Witness ==
    /\ lastOp.op = "unmount"
    /\ lastOp.w = 1
    /\ lastOp.error = "none"
    /\ widgets[1].destroyCalled
    /\ widgets[1].domChildren = <<>>
    /\ slot = 2
    /\ Attached(widgets[2])

\* the field of the result an entry point puts the decoded body in
SuccessField(e) ==
    CASE e = "createToken" -> "token"
      [] e = "createSource" -> "source"
      [] e \in CardPaymentEntries -> "paymentIntent"
      [] OTHER -> "setupIntent"

(***************************************************************************)
(* C24: createToken and createSource are one-shot: an invocation that      *)
(* reaches the transport issues exactly one network call, POST /v1/tokens  *)
(* carrying the widget's value.card resp. POST /v1/sources carrying the    *)
(* caller's fields, never opens the modal, never retries, and returns      *)
(* {token: <body>} resp. {source: <body>} on a 200 response without error  *)
(* field and {error} on a failure.                                         *)
(***************************************************************************)
C24_CreateOneShot ==
    entry \in {"createToken", "createSource"} =>
        /\ modals = 0
        /\ clicks = <<>>
        /\ Len(calls) <= 1
        /\ Len(responses) <= Len(calls)
        /\ calls # <<>> =>
              /\ calls[1].method = "POST"
              /\ calls[1].url = Url(IF entry = "createToken" THEN "tokens" ELSE "sources",
                                    <<>>, "", "")
              /\ calls[1].body.key = ApiKey
              /\ entry = "createToken" =>
                    calls[1].body.card = args.element.value.card
              /\ (entry = "createSource" /\ args.source.t = "object") =>
                    \A f \in DOMAIN args.source \ {"t"} :
                        calls[1].body[f] = args.source[f]
        /\ pc = "done" <=> (calls = <<>> \/ Len(responses) = 1)
        /\ Len(responses) = 1 =>
              IF Ok200(responses[1])
              THEN result = [x \in {"t", SuccessField(entry)} |->
                                IF x = "t" THEN "object"
                                ELSE DecodedOrEmpty(responses[1])]
              ELSE /\ "error" \in DOMAIN result
                   /\ SuccessField(entry) \notin DOMAIN result
                   /\ (responses[1].kind = "response" /\ responses[1].decodable
                          /\ "error" \in DOMAIN responses[1].json) =>
                         result = [t |-> "object", error |-> responses[1].json.error]

C24_Witness ==
    /\ entry = "createToken"
    /\ pc = "done"
    /\ Len(calls) = 1
    /\ calls[1].body.card = CardValue
    /\ Len(responses) = 1
    /\ Ok200(responses[1])
    /\ responses[1].decodable
    /\ result.token = responses[1].json

\* the payment method the caller described: data.payment_method, or for
\* handleCardSetup the element with data.payment_method_data spread over it
GivenPaymentMethod ==
    IF entry = "confirmCardSetup" THEN args.data.payment_method
    ELSE Spread([t |-> "object", card |-> args.element],
                Get(args.data, "payment_method_data"))

\* the postal code the caller supplied in billing_details.address, if any
GivenPostalCode ==
    Get(Get(Get(GivenPaymentMethod, "billing_details"), "address"), "postal_code")

(***************************************************************************)
(* C25: when confirmCardSetup is given a widget as payment_method.card,    *)
(* the first confirm request carries the widget's current value.card as    *)
(* the card payload, and billing_details.address.postal_code is the        *)
(* caller's postal code when one (a non-empty one) is supplied and the     *)
(* widget's postal_code only when none is; the caller's other billing      *)
(* details are sent as given.                                              *)
(***************************************************************************)
C25_WidgetPayload ==
    (/\ entry \in CardSetupEntries
     /\ calls # <<>>
     /\ GivenPaymentMethod.card.t = "Element") =>
        LET sent == calls[1].body.payment_method_data
            widget == GivenPaymentMethod.card
        IN  /\ calls[1].url.action = "confirm"
            /\ sent.type = Str("card")
            /\ sent.card = widget.value.card
            /\ sent.billing_details.address.postal_code =
                  IF GivenPostalCode.t = "string" /\ GivenPostalCode # Str("")
                  THEN GivenPostalCode
                  ELSE widget.value.postal_code
            /\ \A f \in DOMAIN Get(GivenPaymentMethod, "billing_details") \ {"t", "address"} :
                  sent.billing_details[f] = GivenPaymentMethod.billing_details[f]

C25_Witness ==
    /\ entry = "confirmCardSetup"
    /\ pc = "fetch1"
    /\ Len(calls) = 1
    /\ args.data.payment_method.card.t = "Element"
    /\ "billing_details" \in DOMAIN args.data.payment_method
    /\ "address" \notin DOMAIN args.data.payment_method.billing_details
    /\ calls[1].body.payment_method_data.card = CardValue
    /\ calls[1].body.payment_method_data.billing_details.address.postal_code = Str("75001")
    /\ calls[1].body.payment_method_data.billing_details.name = Str("Jane Doe")

(***************************************************************************)
(* C26: the modal resolves only on a click: while the invocation awaits    *)
(* it the promise stays pending and no network call is issued, the only    *)
(* step that ends the wait is a click on one of the two buttons (no        *)
(* timeout, no automatic resolution), and each modal resolves exactly      *)
(* once, with true for the confirm button and false for the cancel button. *)
(***************************************************************************)
C26_ModalWaits ==
    [][/\ pc = "modal" =>
             /\ result = Pending
             /\ Len(clicks) = modals - 1
             /\ Len(responses) = Len(calls)
             /\ pressed' = Append(pressed, pressed'[Len(pressed')])
             /\ pressed'[Len(pressed')] \in Buttons
             /\ clicks' = Append(clicks, pressed'[Len(pressed')] = "confirm")
             /\ pc' # "modal"
       /\ pc # "modal" => pressed' = pressed \/ pressed' = <<>>
       /\ Len(clicks') <= modals'
       /\ Len(clicks') = Len(pressed')
       /\ \A i \in 1..Len(clicks') : clicks'[i] = (pressed'[i] = "confirm")]_vars

C26_Witness ==
    /\ entry = "confirmCardSetup"
    /\ pc = "fetch2"
    /\ modals = 1
    /\ pressed = <<"cancel">>
    /\ clicks = <<FALSE>>
    /\ Len(calls) = 2

(***************************************************************************)
(* C27: in the second round of confirmCardSetup (after the re-confirm or   *)
(* the cancel call), a 200 response without error field gives              *)
(* {error: null, setupIntent: <body>} if and only if its status is         *)
(* "succeeded"; every other status, "requires_action" again and the status *)
(* the cancel endpoint returns included, gives the fixed message "The      *)
(* latest attempt to set up the payment method has failed because          *)
(* authentication failed." and ends the confirmation: no third call, no    *)
(* second modal.                                                           *)
(***************************************************************************)
C27_SecondRound ==
    (entry \in CardSetupEntries /\ Len(responses) = 2) =>
        /\ pc = "done"
        /\ Len(calls) = 2
        /\ modals = 1
        /\ Len(clicks) = 1
        /\ Ok200(responses[2]) =>
              IF HasStatus(responses[2], "succeeded")
              THEN result = [t |-> "object", error |-> Null,
                             setupIntent |-> responses[2].json]
              ELSE result = AuthenticationFailed

C27_Witness ==
    /\ entry = "confirmCardSetup"
    /\ pc = "done"
    /\ clicks = <<TRUE>>
    /\ Len(responses) = 2
    /\ Ok200(responses[2])
    /\ HasStatus(responses[2], "requires_action")
    /\ result = AuthenticationFailed

(***************************************************************************)
(* C30: a mount() call that raises an error leaves the widget's state      *)
(* unchanged: after a failed mount with an invalid target (a selector      *)
(* matching no node, or a non-node argument) the widget is still unmounted *)
(* with no constructed nodes, so that the next mount() to a valid node     *)
(* succeeds without an unmount() in between.                               *)
(***************************************************************************)
C30_FailedMountChangesNothing ==
    [][/\ (Did("mount") /\ lastOp'.error # "none") =>
             /\ widgets' = widgets
             /\ slot' = slot
       /\ (/\ Did("mount")
           /\ lastOp.op = "mount"
           /\ lastOp.w = lastOp'.w
           /\ lastOp.error # "none"
           /\ TargetOf(lastOp.arg) = Null
           /\ TargetOf(lastOp'.arg) # Null
           /\ slot = lastOp.w
           /\ ~Attached(widgets[lastOp.w])) =>
             /\ lastOp'.error = "none"
             /\ Attached(widgets'[lastOp'.w])]_vars

(***************************************************************************)
(* C29: the focus and blur handlers of the widget's inputs never throw, in *)
(* any interleaving with the widget's other operations; in particular the  *)
(* deferred (setTimeout 0) part of the blur handler does not throw when    *)
(* unmount() or destroy() runs between the blur event and the timer.       *)
(***************************************************************************)
C29_FocusHandlersNeverThrow ==
    lastOp.op \in {"focus", "blur", "blurTimer"} => lastOp.error = "none"

(***************************************************************************)
(* Vocabulary of the properties of the fields.                             *)
(***************************************************************************)
\* the digits of a text, in order
DigitsOf(cs) ==
    SelectSeq(cs, LAMBDA c : c \in {"0", "1", "2", "3", "4", "5", "6", "7", "8", "9"})

\* the first n characters of a text, or all of it
Prefix(cs, n) == [i \in 1..(IF Len(cs) < n THEN Len(cs) ELSE n) |-> cs[i]]

\* the last thing that happened is an input event on the field
InputOn(field) == lastOp.op = "input" /\ lastOp.arg.field = field

\* what the user left in the field, and what the field shows after the event
RawOfInput == lastOp.arg.raw.chars
ShownAfterInput == widgets[lastOp.w].inputs[lastOp.arg.field]

(***************************************************************************)
(* C22: for every raw card-number input, the text displayed after          *)
(* normalization is the digits of the input grouped in blocks of 4         *)
(* separated by single spaces and cut to at most 19 characters, and the    *)
(* exposed value.card.number contains only digits and has length at most   *)
(* 16.                                                                     *)
(***************************************************************************)
C22_CardNumber ==
    InputOn("number") =>
        LET shown == ShownAfterInput
            number == widgets[lastOp.w].value.card.number.chars
        IN  /\ Len(shown) <= 19
            /\ \A i \in 1..Len(shown) :
                  IF i % 5 = 0 THEN shown[i] = " "
                  ELSE DigitsOf(<<shown[i]>>) # <<>>
            /\ shown # <<>> => shown[Len(shown)] # " "
            /\ DigitsOf(shown) = Prefix(DigitsOf(RawOfInput), 16)
            /\ number = DigitsOf(shown)
            /\ Len(number) <= 16

C22_Witness ==
    /\ InputOn("number")
    /\ Len(DigitsOf(RawOfInput)) > 16
    /\ Len(ShownAfterInput) = 19
    /\ Len(widgets[lastOp.w].value.card.number.chars) = 16

(***************************************************************************)
(* C23: for every raw expiry-month input, one normalization step strips    *)
(* non-digits and keeps at most the first 2 digits; a two-digit result     *)
(* greater than 12 becomes "12"; a single-digit result greater than 1 is   *)
(* left-padded to two digits ("5" becomes "05"); "0", "1" and the empty    *)
(* string are left as they are.                                            *)
(***************************************************************************)
C23_ExpMonth ==
    InputOn("exp_month") =>
        LET d == Prefix(DigitsOf(RawOfInput), 2)
            shown == ShownAfterInput
        IN  CASE Len(d) = 2 /\ (\/ d[1] \notin {"0", "1"}
                                \/ d[1] = "1" /\ d[2] \notin {"0", "1", "2"})
                   -> shown = <<"1", "2">>
              [] Len(d) = 1 /\ d[1] \notin {"0", "1"}
                   -> shown = <<"0", d[1]>>
              [] OTHER -> shown = d

C23_Witness ==
    /\ InputOn("exp_month")
    /\ RawOfInput = <<"x", "5">>
    /\ ShownAfterInput = <<"0", "5">>

(***************************************************************************)
(* C28: after every normalization the value snapshot is exactly            *)
(* {card: {number: card-number field without spaces, exp_month: month      *)
(* field, exp_year: "20" followed by the year field, cvc: CVC field},      *)
(* postal_code: postal field verbatim}, where the year field holds only    *)
(* digits and at most 2 of them (the first of what was typed) and the CVC  *)
(* field holds only digits and at most 4 of them.                          *)
(***************************************************************************)
C28_Snapshot ==
    lastOp.op = "input" =>
        LET el == widgets[lastOp.w]
            fields == el.inputs
        IN  /\ el.value =
                  [t |-> "object",
                   card |-> [t |-> "object",
                             number |-> Text(SelectSeq(fields.number,
                                                       LAMBDA c : c # " ")),
                             exp_month |-> Text(fields.exp_month),
                             exp_year |-> Text(<<"2", "0">> \o fields.exp_year),
                             cvc |-> Text(fields.cvc)],
                   postal_code |-> Text(fields.postal_code)]
            /\ fields.exp_year = DigitsOf(fields.exp_year)
            /\ Len(fields.exp_year) <= 2
            /\ fields.cvc = DigitsOf(fields.cvc)
            /\ Len(fields.cvc) <= 4
            /\ InputOn("exp_year") =>
                  fields.exp_year = Prefix(DigitsOf(RawOfInput), 2)
            /\ InputOn("cvc") => fields.cvc = Prefix(DigitsOf(RawOfInput), 4)
            /\ InputOn("postal_code") => fields.postal_code = RawOfInput

C28_Witness ==
    /\ InputOn("cvc")
    /\ Len(DigitsOf(RawOfInput)) > 4
    /\ DigitsOf(RawOfInput) # RawOfInput
    /\ Len(ShownAfterInput) = 4
    /\ widgets[lastOp.w].inputs.number # <<>>
    /\ widgets[lastOp.w].inputs.exp_year # <<>>
    /\ widgets[lastOp.w].value.card.exp_year.chars = <<"2", "0", "3", "0">>

(***************************************************************************)
(* C21: on every field normalization (an input event on any of the five    *)
(* fields) the widget recomputes value and then synchronously invokes      *)
(* every handler registered with on('change', ...), each exactly once and  *)
(* in registration order; handlers registered for other event names are    *)
(* not invoked.  The handlers are taken to return normally.                *)
(***************************************************************************)
C21_ChangeHandlers ==
    [][Did("input") =>
          LET w == lastOp'.w
              registered == widgets[w].listeners["change"]
              called == lastOp'.notified
          IN  /\ widgets'[w].value = ValueOf(widgets'[w].inputs)
              /\ widgets'[w].listeners = widgets[w].listeners
              /\ Len(called) = Len(registered)
              /\ \A i \in 1..Len(called) :
                    /\ called[i].handler = registered[i]
                    /\ called[i].saw = widgets'[w].value]_vars

C21_Witness ==
    /\ lastOp.op = "input"
    /\ widgets[lastOp.w].listeners["change"] = <<"h2", "h1">>
    /\ widgets[lastOp.w].listeners["ready"] # <<>>
    /\ Len(lastOp.notified) = 2
    /\ lastOp.notified[1].handler = "h2"
    /\ lastOp.notified[2].handler = "h1"
    /\ lastOp.notified[1].saw = widgets[lastOp.w].value

(***************************************************************************)
(* C38: after any sequence of input events, an expiry-month field that     *)
(* holds two digits denotes a valid month: its numeric value is between 1  *)
(* and 12 inclusive.                                                       *)
(***************************************************************************)
ValidMonths ==
    {<<"0", d>> : d \in {"1", "2", "3", "4", "5", "6", "7", "8", "9"}}
        \cup {<<"1", "0">>, <<"1", "1">>, <<"1", "2">>}

C38_TwoDigitMonthValid ==
    \A w \in 1..Len(widgets) :
       (widgets[w].inputs # Undefined /\ Len(widgets[w].inputs.exp_month) = 2)
          => widgets[w].inputs.exp_month \in ValidMonths

(***************************************************************************)
(* C32: in every reachable state, a widget that has constructed DOM nodes  *)
(* attached to a target is the widget held in its factory's slot: a        *)
(* destroyed widget never has DOM nodes attached, under any sequence of    *)
(* create, mount, unmount and destroy.                                     *)
(***************************************************************************)
C32_AttachedIsInSlot ==
    \A w \in 1..Len(widgets) :
       /\ Attached(widgets[w]) => slot = w
       /\ widgets[w].destroyCalled =>
             /\ ~Attached(widgets[w])
             /\ widgets[w].domChildren = <<>>
             /\ slot # w

C32_Witness ==
    /\ Len(widgets) = 2
    /\ widgets[1].destroyCalled
    /\ lastOp.op = "mount"
    /\ lastOp.w = 1
    /\ lastOp.error = ErrDestroyed
    /\ Attached(widgets[2])
    /\ slot = 2

(***************************************************************************)
(* C33: destroy() on an already-destroyed widget changes nothing: it       *)
(* raises no error and, when a newer widget has since been created in the  *)
(* same factory, it neither clears the slot nor unmounts or otherwise      *)
(* alters the newer widget.                                                *)
(***************************************************************************)
C33_DestroyTwice ==
    [][(Did("destroy") /\ widgets[lastOp'.w].destroyCalled) =>
          /\ lastOp'.error = "none"
          /\ widgets' = widgets
          /\ slot' = slot]_vars

C33_Witness ==
    /\ Len(widgets) = 2
    /\ lastOp.op = "destroy"
    /\ lastOp.w = 1
    /\ lastOp.error = "none"
    /\ slot = 2
    /\ Attached(widgets[2])
    /\ widgets[1].destroyCalled

(***************************************************************************)
(* C36: confirmCardPayment called with a client secret that does not match *)
(* pi_..._secret_ returns its {error} result without invoking the          *)
(* Challenge Presenter, so its completion does not depend on any user      *)
(* interaction.                                                            *)
(***************************************************************************)
C36_MalformedPaymentSecretNoModal ==
    (entry \in CardPaymentEntries /\ ~WellFormed("pi_", secret)) =>
        /\ modals = 0
        /\ clicks = <<>>
        /\ pc = "done"
        /\ {"t", "error"} = DOMAIN result

(***************************************************************************)
(* C37: under the fairness assumptions that every issued network call      *)
(* eventually completes (with a response or a failure) and that every      *)
(* opened Challenge Presenter is eventually answered, every invocation of  *)
(* createToken, createSource, confirmCardSetup, confirmCardPayment and     *)
(* confirmSepaDebitSetup eventually returns a result, and after it returns *)
(* no network call or presenter of that invocation is outstanding.         *)
(***************************************************************************)
NamedEntries ==
    {"createToken", "createSource", "confirmCardSetup", "confirmCardPayment",
     "confirmSepaDebitSetup"}

\* the invocation is over and every call and modal of it has been answered
NothingOutstanding ==
    /\ pc = "done"
    /\ Len(responses) = Len(calls)
    /\ Len(clicks) = modals

\* the invocation is over, whether it returned or threw
C37_Settles == (entry \in NamedEntries) ~> NothingOutstanding

C37_EventuallyReturns ==
    (entry \in NamedEntries) ~> (NothingOutstanding /\ result.t = "object")

(***************************************************************************)
(* C31: whenever a widget is mounted, its value snapshot agrees with the   *)
(* normalized contents of its current input fields; in particular after    *)
(* unmount() followed by mount(), which constructs fresh empty fields, the *)
(* snapshot (and hence what createToken / confirmCardSetup send) does not  *)
(* retain the card data typed before the unmount.  A widget nobody typed   *)
(* into yet, whose fields are all empty, may still have no snapshot.       *)
(***************************************************************************)
SnapshotOf(fields) ==
    [t |-> "object",
     card |-> [t |-> "object",
               number |-> Text(SelectSeq(fields.number, LAMBDA c : c # " ")),
               exp_month |-> Text(fields.exp_month),
               exp_year |-> Text(<<"2", "0">> \o fields.exp_year),
               cvc |-> Text(fields.cvc)],
     postal_code |-> Text(fields.postal_code)]

C31_SnapshotAgreesWithFields ==
    \A w \in 1..Len(widgets) :
       Attached(widgets[w]) =>
          \/ widgets[w].value = SnapshotOf(widgets[w].inputs)
          \/ /\ widgets[w].value = Undefined
             /\ \A f \in FieldNames : widgets[w].inputs[f] = <<>>

(***************************************************************************)
(* C34: confirmCardSetup leaves the caller's data argument unchanged: when *)
(* it is called a second time with the same data object (still referring   *)
(* to the widget) after the widget's value has changed, the second call's  *)
(* request carries the widget's value and postal code as of the second     *)
(* call, not those captured by the first call.                             *)
(***************************************************************************)
C34_DataArgumentUnchanged ==
    [][(page'.invocations > page.invocations) =>
          /\ page'.data = page.data
          /\ (calls' # <<>> /\ widgets[1].value # Undefined) =>
                LET sent == calls'[1].body.payment_method_data
                IN  /\ sent.card = widgets[1].value.card
                    /\ sent.billing_details.address.postal_code =
                          widgets[1].value.postal_code]_vars

(***************************************************************************)
(* C35: the card payload and postal code sent by confirmCardSetup are the  *)
(* widget's value at the moment of invocation: keystrokes in the widget,   *)
(* unmount() or destroy() that interleave while the confirmation is        *)
(* suspended (on a network call or on the Challenge Presenter) change      *)
(* neither the requests that are sent nor the result that is returned.     *)
(***************************************************************************)
\* the last step was a keystroke, an unmount() or a destroy()
WidgetStep == lastOp' # lastOp /\ lastOp'.op \in {"input", "unmount", "destroy"}

C35_PayloadFixedAtInvocation ==
    [][/\ (entry' = "confirmCardSetup" /\ calls' # <<>>
           /\ args'.data.payment_method.card.t = "Element") =>
             LET sent == calls'[1].body.payment_method_data
                 widget == args'.data.payment_method.card
             IN  /\ sent.card = widget.value.card
                 /\ sent.billing_details.address.postal_code =
                       widget.value.postal_code
                 /\ Len(calls') = 2 =>
                       DOMAIN calls'[2].body =
                          {"t", "key", "use_stripe_sdk", "client_secret"}
       /\ WidgetStep =>
             /\ calls' = calls
             /\ result' = result
             /\ pc' = pc
             /\ responses' = responses
             /\ clicks' = clicks
       /\ (pc' = "done" /\ Len(responses') = 1 /\ Ok200(responses'[1])
           /\ HasStatus(responses'[1], "succeeded")) =>
             result' = [t |-> "object", error |-> Null,
                        setupIntent |-> responses'[1].json]
       /\ (pc' = "done" /\ Len(responses') = 2 /\ Ok200(responses'[2])
           /\ HasStatus(responses'[2], "succeeded")) =>
             result' = [t |-> "object", error |-> Null,
                        setupIntent |-> responses'[2].json]]_vars

C35_Witness ==
    /\ entry = "confirmCardSetup"
    /\ pc = "done"
    /\ Len(calls) = 2
    /\ Len(responses) = 2
    /\ "setupIntent" \in DOMAIN result
    /\ args.data.payment_method.card.t = "Element"
    /\ calls[1].body.payment_method_data.card = args.data.payment_method.card.value.card
    /\ widgets[1].value # args.data.payment_method.card.value
    /\ widgets[1].destroyCalled

====
